---- MODULE Spec2Model ----
(***************************************************************************)
(* WarpTrace anomaly engine: backend/anomaly.py, detect_anomalies.         *)
(*                                                                         *)
(* Python values are tagged records, so that a field can hold None, a      *)
(* string, an integer or a datetime, as the dictionaries of the source do. *)
(* Strings are TLA+ strings, worked on character by character (SubSeq).    *)
(* A datetime is its wall-clock reading in seconds since 1970-01-01, its   *)
(* UTC offset in seconds, and whether it is zone-aware.  Scores and risk   *)
(* values are fixed-point numbers, in units of 1/Scale.                    *)
(***************************************************************************)
EXTENDS Integers, Sequences, FiniteSets, TLC

VARIABLES events, pc, norm, time_sorted, anomalies, cursor,
          win_user, win_pair, win, seen, unique, result, grouped,
          sched, uploads, requests, workers

\* the state of the web service: the rows of the database, the requests
\* being served and the analysis workers
service == <<uploads, requests, workers>>

\* the state of the calls of detect_anomalies
engine == <<events, pc, norm, time_sorted, anomalies, cursor,
            win_user, win_pair, win, seen, unique, result, grouped, sched>>

vars == <<events, pc, norm, time_sorted, anomalies, cursor,
          win_user, win_pair, win, seen, unique, result, grouped, sched, service>>

(***************************************************************************)
(* Python values                                                           *)
(***************************************************************************)
NoneV == [ty |-> "none"]
StrV(s) == [ty |-> "str", s |-> s]
IntV(n) == [ty |-> "int", n |-> n]
FltV(v) == [ty |-> "float", v |-> v]
ListV(l) == [ty |-> "list", l |-> l]
DtV(wall, off, aware) == [ty |-> "dt", wall |-> wall, off |-> off, aware |-> aware]
\* the floats that are no numbers of the line: inf, -inf and nan
InfV(neg) == [ty |-> "inf", neg |-> neg]
NanV == [ty |-> "nan"]

\* bool(x)
Truthy(x) ==
  CASE x.ty = "none" -> FALSE
    [] x.ty = "str" -> x.s # ""
    [] x.ty = "int" -> x.n # 0
    [] x.ty = "float" -> x.v # 0
    [] x.ty = "list" -> x.l # <<>>
    [] OTHER -> TRUE

\* x or y
Or(x, y) == IF Truthy(x) THEN x ELSE y

(***************************************************************************)
(* Strings                                                                 *)
(***************************************************************************)
Ch(s, i) == SubSeq(s, i, i)

Whitespace == {" ", "\t", "\n", "\r"}
Digits == {"0", "1", "2", "3", "4", "5", "6", "7", "8", "9"}
Upper == {"A", "B", "C", "D", "E", "F", "G", "H", "I", "J", "K", "L", "M",
          "N", "O", "P", "Q", "R", "S", "T", "U", "V", "W", "X", "Y", "Z"}
Letters == {"a", "b", "c", "d", "e", "f", "g", "h", "i", "j", "k", "l", "m",
            "n", "o", "p", "q", "r", "s", "t", "u", "v", "w", "x", "y", "z"}

LowerCh(c) ==
  CASE c = "A" -> "a" [] c = "B" -> "b" [] c = "C" -> "c" [] c = "D" -> "d"
    [] c = "E" -> "e" [] c = "F" -> "f" [] c = "G" -> "g" [] c = "H" -> "h"
    [] c = "I" -> "i" [] c = "J" -> "j" [] c = "K" -> "k" [] c = "L" -> "l"
    [] c = "M" -> "m" [] c = "N" -> "n" [] c = "O" -> "o" [] c = "P" -> "p"
    [] c = "Q" -> "q" [] c = "R" -> "r" [] c = "S" -> "s" [] c = "T" -> "t"
    [] c = "U" -> "u" [] c = "V" -> "v" [] c = "W" -> "w" [] c = "X" -> "x"
    [] c = "Y" -> "y" [] c = "Z" -> "z" [] OTHER -> c

\* str.lower()
RECURSIVE lower(_)
lower(s) ==
  IF Len(s) <= 1 THEN LowerCh(s)
  ELSE lower(SubSeq(s, 1, Len(s) \div 2)) \o lower(SubSeq(s, Len(s) \div 2 + 1, Len(s)))

RECURSIVE lstrip(_)
lstrip(s) == IF s # "" /\ Head(s) \in Whitespace THEN lstrip(Tail(s)) ELSE s

RECURSIVE rstrip(_)
rstrip(s) ==
  IF s # "" /\ Ch(s, Len(s)) \in Whitespace
  THEN rstrip(SubSeq(s, 1, Len(s) - 1)) ELSE s

\* str.strip()
strip(s) == rstrip(lstrip(s))

\* str.startswith at an offset: p occurs in s at position i
At(s, i, p) == i >= 1 /\ i + Len(p) - 1 <= Len(s) /\ SubSeq(s, i, i + Len(p) - 1) = p

\* p in s
Contains(s, p) == \E i \in 1..(Len(s) - Len(p) + 1) : At(s, i, p)

\* s.find(p) + 1, or 0 when p does not occur
Find(s, p) ==
  IF Contains(s, p)
  THEN CHOOSE i \in 1..(Len(s) - Len(p) + 1) :
         At(s, i, p) /\ \A j \in 1..(i - 1) : ~At(s, j, p)
  ELSE 0

AllIn(s, set) == \A i \in 1..Len(s) : Ch(s, i) \in set

DigitVal(c) ==
  CASE c = "0" -> 0 [] c = "1" -> 1 [] c = "2" -> 2 [] c = "3" -> 3 [] c = "4" -> 4
    [] c = "5" -> 5 [] c = "6" -> 6 [] c = "7" -> 7 [] c = "8" -> 8 [] c = "9" -> 9

\* the value of a non-empty string of decimal digits
RECURSIVE StrToNat(_)
StrToNat(s) ==
  IF Len(s) = 1 THEN DigitVal(s)
  ELSE 10 * StrToNat(SubSeq(s, 1, Len(s) - 1)) + DigitVal(Ch(s, Len(s)))

IsNat(s) == s # "" /\ AllIn(s, Digits)

\* str(f) of a float given in 1/100: at least one digit behind the point
FloatStr(v) ==
  LET a == IF v < 0 THEN 0 - v ELSE v
      frac == a % 100
  IN (IF v < 0 THEN "-" ELSE "") \o ToString(a \div 100) \o "."
     \o (IF frac % 10 = 0 THEN ToString(frac \div 10)
         ELSE IF frac < 10 THEN "0" \o ToString(frac) ELSE ToString(frac))

\* repr(x), for the values a field can hold (a string without quotes in it)
RECURSIVE Repr(_)
Repr(x) ==
  CASE x.ty = "str" -> "'" \o x.s \o "'"
    [] x.ty = "int" -> ToString(x.n)
    [] x.ty = "float" -> FloatStr(x.v)
    [] x.ty = "none" -> "None"
    [] x.ty = "list" ->
         LET RECURSIVE Items(_)
             Items(k) == IF k > Len(x.l) THEN ""
                         ELSE (IF k > 1 THEN ", " ELSE "") \o Repr(x.l[k]) \o Items(k + 1)
         IN "[" \o Items(1) \o "]"
    [] OTHER -> "<object>"

\* str(x)
PyStr(x) == IF x.ty = "str" THEN x.s ELSE Repr(x)

(***************************************************************************)
(* Timestamps: _as_dt                                                      *)
(***************************************************************************)
IsLeap(y) == (y % 4 = 0 /\ y % 100 # 0) \/ y % 400 = 0

DaysInMonth(y, m) ==
  CASE m \in {1, 3, 5, 7, 8, 10, 12} -> 31
    [] m \in {4, 6, 9, 11} -> 30
    [] OTHER -> IF IsLeap(y) THEN 29 ELSE 28

\* days from 1970-01-01 to the civil date y-m-d (proleptic Gregorian)
DaysFromCivil(y, m, d) ==
  LET yy == IF m <= 2 THEN y - 1 ELSE y
      era == yy \div 400
      yoe == yy - era * 400
      mp == IF m > 2 THEN m - 3 ELSE m + 9
      doy == (153 * mp + 2) \div 5 + d - 1
      doe == yoe * 365 + yoe \div 4 - yoe \div 100 + doy
  IN era * 146097 + doe - 719468

Fail == [ok |-> FALSE]
Ok(v) == [ok |-> TRUE, v |-> v]

\* datetime(y, m, d, hh, mi, ss): ValueError outside the calendar
MakeWall(y, m, d, hh, mi, ss) ==
  IF y >= 1 /\ m \in 1..12 /\ d >= 1 /\ d <= DaysInMonth(y, m)
     /\ hh <= 23 /\ mi <= 59 /\ ss <= 59
  THEN Ok(DaysFromCivil(y, m, d) * 86400 + hh * 3600 + mi * 60 + ss)
  ELSE Fail

\* a field of exactly n decimal digits
Field(s, n) == Len(s) = n /\ AllIn(s, Digits)

\* HH:MM or HH:MM:SS, as <<hh, mi, ss>>
ParseClock(s) ==
  IF Len(s) = 5 /\ Field(SubSeq(s, 1, 2), 2) /\ Ch(s, 3) = ":" /\ Field(SubSeq(s, 4, 5), 2)
  THEN Ok(<<StrToNat(SubSeq(s, 1, 2)), StrToNat(SubSeq(s, 4, 5)), 0>>)
  ELSE IF Len(s) = 8 /\ Field(SubSeq(s, 1, 2), 2) /\ Ch(s, 3) = ":"
          /\ Field(SubSeq(s, 4, 5), 2) /\ Ch(s, 6) = ":" /\ Field(SubSeq(s, 7, 8), 2)
  THEN Ok(<<StrToNat(SubSeq(s, 1, 2)), StrToNat(SubSeq(s, 4, 5)), StrToNat(SubSeq(s, 7, 8))>>)
  ELSE Fail

\* +HH:MM or -HH:MM, in seconds
ParseOffset(s) ==
  IF Len(s) = 6 /\ Ch(s, 1) \in {"+", "-"} /\ ParseClock(SubSeq(s, 2, 6)).ok
  THEN LET c == ParseClock(SubSeq(s, 2, 6)).v
           secs == c[1] * 3600 + c[2] * 60
       IN IF c[1] <= 23 /\ c[2] <= 59
          THEN Ok(IF Ch(s, 1) = "-" THEN 0 - secs ELSE secs)
          ELSE Fail
  ELSE Fail

\* datetime.fromisoformat(s) for YYYY-MM-DD, optionally followed by one
\* separator character, HH:MM or HH:MM:SS, and a +HH:MM / -HH:MM offset.
\* (Fractional seconds and the extended forms of newer interpreters are not
\* modelled; no input of the model uses them.)
fromisoformat(s) ==
  IF Len(s) < 10 \/ ~Field(SubSeq(s, 1, 4), 4) \/ Ch(s, 5) # "-"
     \/ ~Field(SubSeq(s, 6, 7), 2) \/ Ch(s, 8) # "-" \/ ~Field(SubSeq(s, 9, 10), 2)
  THEN Fail
  ELSE
    LET y == StrToNat(SubSeq(s, 1, 4))
        m == StrToNat(SubSeq(s, 6, 7))
        d == StrToNat(SubSeq(s, 9, 10))
        rest == SubSeq(s, 12, Len(s))
        hasTz == Len(rest) \in {11, 14}
        clock == IF hasTz THEN SubSeq(rest, 1, Len(rest) - 6) ELSE rest
        tz == SubSeq(rest, Len(rest) - 5, Len(rest))
    IN IF Len(s) = 10
       THEN LET w == MakeWall(y, m, d, 0, 0, 0)
            IN IF w.ok THEN Ok(DtV(w.v, 0, FALSE)) ELSE Fail
       ELSE IF Len(s) = 11 \/ ~ParseClock(clock).ok \/ (hasTz /\ ~ParseOffset(tz).ok)
       THEN Fail
       ELSE LET c == ParseClock(clock).v
                w == MakeWall(y, m, d, c[1], c[2], c[3])
            IN IF ~w.ok THEN Fail
               ELSE IF hasTz THEN Ok(DtV(w.v, ParseOffset(tz).v, TRUE))
               ELSE Ok(DtV(w.v, 0, FALSE))

\* the part of s before the first occurrence of p, and the part after it
Before(s, p) == SubSeq(s, 1, Find(s, p) - 1)
After(s, p) == SubSeq(s, Find(s, p) + Len(p), Len(s))

\* a strptime field: one or two decimal digits
Field12(s) == Len(s) \in {1, 2} /\ AllIn(s, Digits)

\* index of the first character of s that is in set, or 0
FirstIn(s, set) ==
  IF \E i \in 1..Len(s) : Ch(s, i) \in set
  THEN CHOOSE i \in 1..Len(s) :
         Ch(s, i) \in set /\ \A j \in 1..(i - 1) : Ch(s, j) \notin set
  ELSE 0

\* index of the last character of s that is in set, or 0
LastIn(s, set) ==
  IF \E i \in 1..Len(s) : Ch(s, i) \in set
  THEN CHOOSE i \in 1..Len(s) :
         Ch(s, i) \in set /\ \A j \in (i + 1)..Len(s) : Ch(s, j) \notin set
  ELSE 0

FirstWs(s) == FirstIn(s, Whitespace)

\* datetime.strptime(s, "%Y-%m-%d %H:%M:%S"): four-digit year, the other
\* fields of one or two digits, any run of whitespace between date and time
strptime(s) ==
  IF ~(Len(s) >= 5 /\ Field(SubSeq(s, 1, 4), 4) /\ Ch(s, 5) = "-") THEN Fail
  ELSE
    LET r1 == SubSeq(s, 6, Len(s))
    IN IF ~Contains(r1, "-") THEN Fail
       ELSE
         LET mo == Before(r1, "-")
             r2 == After(r1, "-")
             w == FirstWs(r2)
         IN IF w = 0 THEN Fail
            ELSE
              LET da == SubSeq(r2, 1, w - 1)
                  r3 == lstrip(SubSeq(r2, w, Len(r2)))
              IN IF ~Contains(r3, ":") THEN Fail
                 ELSE
                   LET hh == Before(r3, ":")
                       r4 == After(r3, ":")
                   IN IF ~Contains(r4, ":") THEN Fail
                      ELSE
                        LET mi == Before(r4, ":")
                            ss == After(r4, ":")
                        IN IF Field12(mo) /\ Field12(da) /\ Field12(hh)
                              /\ Field12(mi) /\ Field12(ss)
                           THEN LET wall == MakeWall(StrToNat(SubSeq(s, 1, 4)), StrToNat(mo),
                                                     StrToNat(da), StrToNat(hh),
                                                     StrToNat(mi), StrToNat(ss))
                                IN IF wall.ok THEN Ok(DtV(wall.v, 0, FALSE)) ELSE Fail
                           ELSE Fail

EndsWithZ(s) == s # "" /\ Ch(s, Len(s)) \in {"Z", "z"}

\* _as_dt(x)
as_dt(x) ==
  IF x.ty = "none" THEN NoneV
  ELSE IF x.ty = "dt" THEN x
  ELSE
    LET s == strip(PyStr(x))
        iso == IF EndsWithZ(s)
               THEN fromisoformat(SubSeq(s, 1, Len(s) - 1) \o "+00:00")
               ELSE fromisoformat(s)
    IN IF iso.ok THEN iso.v
       ELSE IF strptime(s).ok THEN strptime(s).v
       ELSE NoneV

\* the digits of an int() literal: decimal digits, single underscores
\* between them
IsGrouped(s) ==
  /\ s # "" /\ AllIn(s, Digits \cup {"_"})
  /\ Head(s) # "_" /\ Ch(s, Len(s)) # "_"
  /\ ~Contains(s, "__")

\* s without its underscores
Ungrouped(s) ==
  LET kept == {k \in 1..Len(s) : Ch(s, k) # "_"}
      Nth(j) == CHOOSE k \in kept : Cardinality({m \in kept : m <= k}) = j
      RECURSIVE Build(_)
      Build(j) == IF j > Cardinality(kept) THEN "" ELSE Ch(s, Nth(j)) \o Build(j + 1)
  IN Build(1)

\* _as_int(x): int(x), None on any exception: an int is itself, a float is
\* truncated towards zero, a string is read as a signed decimal literal
as_int(x) ==
  CASE x.ty = "int" -> x
    [] x.ty = "float" -> IntV(IF x.v < 0 THEN 0 - ((0 - x.v) \div 100) ELSE x.v \div 100)
    [] x.ty = "str" ->
         LET s == strip(x.s)
             signed == s # "" /\ Head(s) \in {"+", "-"}
             body == IF signed THEN Tail(s) ELSE s
         IN IF IsGrouped(body)
            THEN IntV(IF signed /\ Head(s) = "-" THEN 0 - StrToNat(Ungrouped(body))
                      ELSE StrToNat(Ungrouped(body)))
            ELSE NoneV
    [] OTHER -> NoneV

(***************************************************************************)
(* _host, _bucket_minute                                                   *)
(***************************************************************************)
SchemeChars == Letters \cup Upper \cup Digits \cup {"+", "-", "."}

\* urlparse(url).hostname or "": the authority after "scheme://", without
\* userinfo and port, lower-cased.  (Bracketed IPv6 hosts are not modelled.)
hostname(u) ==
  LET u0 == lstrip(u)
      i == Find(u0, ":")
      hasScheme == i > 1 /\ LowerCh(Head(u0)) \in Letters
                   /\ AllIn(SubSeq(u0, 1, i - 1), SchemeChars)
      u1 == IF hasScheme THEN SubSeq(u0, i + 1, Len(u0)) ELSE u0
  IN IF ~At(u1, 1, "//") THEN ""
     ELSE
       LET r == SubSeq(u1, 3, Len(u1))
           e == FirstIn(r, {"/", "?", "#"})
           netloc == IF e = 0 THEN r ELSE SubSeq(r, 1, e - 1)
           hostinfo == SubSeq(netloc, LastIn(netloc, {"@"}) + 1, Len(netloc))
           c == FirstIn(hostinfo, {":"})
       IN lower(IF c = 0 THEN hostinfo ELSE SubSeq(hostinfo, 1, c - 1))

\* _host(url): "" for a falsy url and when urlparse raises (a non-string)
host(url) ==
  IF ~Truthy(url) THEN ""
  ELSE IF url.ty # "str" THEN ""
  ELSE hostname(url.s)

Pad2(n) == IF n < 10 THEN "0" \o ToString(n) ELSE ToString(n)

Pad4(n) ==
  IF n < 10 THEN "000" \o ToString(n)
  ELSE IF n < 100 THEN "00" \o ToString(n)
  ELSE IF n < 1000 THEN "0" \o ToString(n)
  ELSE ToString(n)

\* the civil date <<y, m, d>> of a day number (inverse of DaysFromCivil)
CivilFromDays(days) ==
  LET z == days + 719468
      era == z \div 146097
      doe == z - era * 146097
      yoe == (doe - doe \div 1460 + doe \div 36524 - doe \div 146096) \div 365
      doy == doe - (365 * yoe + yoe \div 4 - yoe \div 100)
      mp == (5 * doy + 2) \div 153
      d == doy - (153 * mp + 2) \div 5 + 1
      m == IF mp < 10 THEN mp + 3 ELSE mp - 9
      y == yoe + era * 400 + (IF m <= 2 THEN 1 ELSE 0)
  IN <<y, m, d>>

\* datetime fields
Hour(dt) == (dt.wall % 86400) \div 3600
Minute(dt) == (dt.wall % 3600) \div 60

\* the instant a datetime orders and subtracts by: UTC for an aware one,
\* the wall clock for a naive one
Instant(dt) == dt.wall - dt.off

\* datetime.isoformat()
isoformat(dt) ==
  LET c == CivilFromDays(dt.wall \div 86400)
      a == IF dt.off < 0 THEN 0 - dt.off ELSE dt.off
  IN Pad4(c[1]) \o "-" \o Pad2(c[2]) \o "-" \o Pad2(c[3]) \o "T"
     \o Pad2(Hour(dt)) \o ":" \o Pad2(Minute(dt)) \o ":" \o Pad2(dt.wall % 60)
     \o (IF dt.aware
         THEN (IF dt.off < 0 THEN "-" ELSE "+") \o Pad2(a \div 3600) \o ":"
              \o Pad2((a % 3600) \div 60)
         ELSE "")

\* ts.replace(second=0, microsecond=0)
FloorMinute(dt) == [dt EXCEPT !.wall = dt.wall - (dt.wall % 60)]

\* _bucket_minute(ts)
bucket_minute(ts) ==
  IF ts.ty = "none" THEN "unknown" ELSE isoformat(FloorMinute(ts))

(***************************************************************************)
(* Tunables                                                                *)
(***************************************************************************)
BRUTE_FORCE_WINDOW_SEC == 120
BRUTE_FORCE_MIN_FAILS == 10
ERROR_RATE_WINDOW_MIN == 10
ERROR_RATE_MIN_EVENTS == 20
\* ERROR_RATE_THRESHOLD = 0.65, in percent
ERROR_RATE_THRESHOLD == 65
RARE_UA_MIN_COUNT == 2
OFF_HOURS_START == 0
OFF_HOURS_END == 5

(***************************************************************************)
(* Normalisation (detect_anomalies, the loop over the raw events)          *)
(***************************************************************************)
\* x.strip() / x.lower() on a value that is not a string: AttributeError
NormalizeRaises(e) ==
  \E x \in {e.user_agent, e.action, e.raw} : Truthy(x) /\ x.ty # "str"

\* fault model: an event without a readable timestamp is given one
NormalizedAtMidnight(e) ==
  [ts |-> IF as_dt(e.ts) = NoneV THEN DtV(0, 0, TRUE) ELSE as_dt(e.ts),
   status |-> as_int(e.status),
   src_ip |-> Or(e.src_ip, StrV("")),
   user |-> Or(e.user, StrV("")),
   user_agent |-> StrV(strip(Or(e.user_agent, StrV("")).s)),
   action |-> StrV(lower(strip(Or(e.action, StrV("")).s))),
   url |-> Or(e.url, StrV("")),
   host |-> StrV(host(e.url)),
   raw |-> StrV(lower(Or(e.raw, StrV("")).s)),
   event_id |-> IF e.event_id.ty = "none" THEN e.id ELSE e.event_id]

NormalizedEvent(e) ==
  [ts |-> as_dt(e.ts),
   status |-> as_int(e.status),
   src_ip |-> Or(e.src_ip, StrV("")),
   user |-> Or(e.user, StrV("")),
   user_agent |-> StrV(strip(Or(e.user_agent, StrV("")).s)),
   action |-> StrV(lower(strip(Or(e.action, StrV("")).s))),
   url |-> Or(e.url, StrV("")),
   host |-> StrV(host(e.url)),
   raw |-> StrV(lower(Or(e.raw, StrV("")).s)),
   event_id |-> IF e.event_id.ty = "none" THEN e.id ELSE e.event_id]

Normalized(evs) == [k \in 1..Len(evs) |-> NormalizedEvent(evs[k])]

\* list comprehension: the elements of seq that satisfy Keep, in order
Filter(seq, Keep(_)) ==
  LET kept == {k \in 1..Len(seq) : Keep(seq[k])}
      Nth(j) == CHOOSE k \in kept : Cardinality({m \in kept : m <= k}) = j
  IN [j \in 1..Cardinality(kept) |-> seq[Nth(j)]]

\* fault model: a slice that cuts nothing off
TakeAll(seq, n) == seq

\* seq[:n]
Take(seq, n) == SubSeq(seq, 1, IF Len(seq) < n THEN Len(seq) ELSE n)

\* Counter(ev["user_agent"] for ev in norm if ev["user_agent"])[ua]
ua_counts(nm, ua) == Cardinality({k \in 1..Len(nm) : nm[k].user_agent.s = ua})

HasTs(ev) == ev.ts.ty # "none"

\* comparing an offset-naive with an offset-aware datetime: TypeError
SortRaises(nm) ==
  \E j, k \in 1..Len(nm) : HasTs(nm[j]) /\ HasTs(nm[k]) /\ nm[j].ts.aware # nm[k].ts.aware

\* fault model: the events with a timestamp in the order of their arrival
ArrivalOrder(seq) == seq

\* sorted(seq, key=lambda x: x["ts"]): a stable sort; the element at
\* position k goes behind the earlier ones and the equal ones before it
SortByTs(seq) ==
  LET Rank(k) == Cardinality({j \in 1..Len(seq) :
                    \/ Instant(seq[j].ts) < Instant(seq[k].ts)
                    \/ Instant(seq[j].ts) = Instant(seq[k].ts) /\ j <= k})
  IN [r \in 1..Len(seq) |-> seq[CHOOSE k \in 1..Len(seq) : Rank(k) = r]]

\* sorted([ev for ev in norm if ev["ts"] is not None], key=lambda x: x["ts"])
TimeSorted(nm) == SortByTs(Filter(nm, HasTs))

(***************************************************************************)
(* Findings.  A finding is [reason, score, kind, meta]; meta is a Python   *)
(* dict, kept as its items in insertion order.  Scores are in 1/10000.     *)
(***************************************************************************)
DictV(items) == [ty |-> "dict", items |-> items]
TupleV(l) == [ty |-> "tuple", l |-> l]

Finding(reason, score, kind, items) ==
  [reason |-> reason, score |-> score, kind |-> kind, meta |-> DictV(items)]

\* meta[key]; None when the key is absent
Get(meta, key) ==
  IF \E k \in 1..Len(meta.items) : meta.items[k][1] = key
  THEN meta.items[CHOOSE k \in 1..Len(meta.items) : meta.items[k][1] = key][2]
  ELSE NoneV

\* ev["event_id"] is not None
HasId(x) == x.ty # "none"

IdOfEntry(x) == x[2]
EntryHasId(x) == HasId(x[2])

\* [F(x) for x in seq]
Map(seq, F(_)) == [k \in 1..Len(seq) |-> F(seq[k])]

\* [x[1] for x in list(q) if x[1] is not None][:50]
WindowIds(q) == ListV(Take(Map(Filter(q, EntryHasId), IdOfEntry), 50))

(***************************************************************************)
(* Keyword recognizers: PASSWORD_RESET_RE and MFA_RE, searched in the      *)
(* lower-cased text (the patterns are compiled with re.I).                 *)
(***************************************************************************)
\* the length of the run of characters of set that starts at position j of s
RECURSIVE SepRun(_, _, _)
SepRun(s, j, set) ==
  IF j <= Len(s) /\ Ch(s, j) \in set THEN 1 + SepRun(s, j + 1, set) ELSE 0

\* [\s_-]
SepChars == Whitespace \cup {"_", "-"}
\* [-\s]
DashWs == Whitespace \cup {"-"}
\* \w
WordChars == Letters \cup Digits \cup {"_"}

\* PASSWORD_RESET_RE.search(text)
PASSWORD_RESET_RE(text) ==
  LET s == lower(text)
  IN \E i \in 1..Len(s) :
       \/ /\ At(s, i, "password")
          /\ LET j == i + 8 + SepRun(s, i + 8, SepChars)
             IN At(s, j, "reset") \/ At(s, j, "change") \/ At(s, j, "update")
       \/ /\ At(s, i, "reset")
          /\ SepRun(s, i + 5, Whitespace) >= 1
          /\ At(s, i + 5 + SepRun(s, i + 5, Whitespace), "password")
       \/ /\ At(s, i, "pwd")
          /\ At(s, i + 3 + SepRun(s, i + 3, SepChars), "reset")
       \/ At(s, i, "post-change-password")
       \/ /\ At(s, i, "recovery")
          /\ SepRun(s, i + 8, Whitespace) >= 1
          /\ LET j == i + 8 + SepRun(s, i + 8, Whitespace)
             IN At(s, j, "email") \/ At(s, j, "ticket")

\* \b before position i, and \b behind position j, of a match i..j that
\* begins and ends with a word character
BoundaryBefore(s, i) == i = 1 \/ Ch(s, i - 1) \notin WordChars
BoundaryAfter(s, j) == j = Len(s) \/ Ch(s, j + 1) \notin WordChars

MfaWords == {"mfa", "guardian", "otp", "webauthn", "duo", "push", "factor",
             "challenge", "enroll", "enrollment"}

\* the end of a match of  head [-\s]? tail  at position i, or 0
OptSep(s, i, head, tail) ==
  LET j == i + Len(head)
      k == IF j <= Len(s) /\ Ch(s, j) \in DashWs THEN j + 1 ELSE j
  IN IF At(s, i, head) /\ At(s, k, tail) THEN k + Len(tail) - 1 ELSE 0

\* MFA_RE.search(text)
MFA_RE(text) ==
  LET s == lower(text)
  IN \E i \in 1..Len(s) :
       /\ BoundaryBefore(s, i)
       /\ \/ \E w \in MfaWords : At(s, i, w) /\ BoundaryAfter(s, i + Len(w) - 1)
          \/ OptSep(s, i, "multi", "factor") > 0
             /\ BoundaryAfter(s, OptSep(s, i, "multi", "factor"))
          \/ OptSep(s, i, "one", "time") > 0
             /\ BoundaryAfter(s, OptSep(s, i, "one", "time"))
          \/ /\ At(s, i, "recovery")
             /\ SepRun(s, i + 8, Whitespace) >= 1
             /\ At(s, i + 8 + SepRun(s, i + 8, Whitespace), "code")
             /\ BoundaryAfter(s, i + 8 + SepRun(s, i + 8, Whitespace) + 3)

(***************************************************************************)
(* Pass 0: password reset / MFA activity, bucketed by (minute, user, ip)   *)
(***************************************************************************)
\* " ".join(parts)
RECURSIVE Join(_)
Join(parts) ==
  IF parts = <<>> THEN ""
  ELSE IF Len(parts) = 1 THEN parts[1]
  ELSE parts[1] \o " " \o Join(Tail(parts))

\* " ".join(str(x) for x in [action, status, url, user_agent, raw] if x)
EventText(ev) ==
  Join(Map(Filter(<<ev.action, ev.status, ev.url, ev.user_agent, ev.raw>>, Truthy), PyStr))

\* (ev.get("user") or "").strip() on a value that is not a string: AttributeError
PwdMfaRaises(nm) ==
  \E k \in 1..Len(nm) :
    \E x \in {nm[k].user, nm[k].src_ip} : Truthy(x) /\ x.ty # "str"

BucketKey(ev) ==
  <<bucket_minute(ev.ts),
    IF strip(ev.user.s) = "" THEN "<unknown>" ELSE strip(ev.user.s),
    IF strip(ev.src_ip.s) = "" THEN "<ip?>" ELSE strip(ev.src_ip.s)>>

\* the items of a dict of lists filled in one pass over seq, in insertion
\* order: a key is inserted at its first occurrence, and its list holds the
\* Val of every element of seq that has this key and satisfies Keep
GroupBy(seq, Key(_), Keep(_), Val(_)) ==
  LET keys == [k \in 1..Len(seq) |-> Key(seq[k])]
      first == {k \in 1..Len(seq) : \A j \in 1..(k - 1) : keys[j] # keys[k]}
      Nth(n) == CHOOSE k \in first : Cardinality({m \in first : m <= k}) = n
      members(key) == {k \in 1..Len(seq) : keys[k] = key /\ Keep(seq[k])}
      Mth(key, n) == CHOOSE k \in members(key) :
                       Cardinality({m \in members(key) : m <= k}) = n
  IN [n \in 1..Cardinality(first) |->
        [key |-> keys[Nth(n)],
         lst |-> [m \in 1..Cardinality(members(keys[Nth(n)])) |->
                    Val(seq[Mth(keys[Nth(n)], m)])]]]

EvId(ev) == ev.event_id
EvHasId(ev) == HasId(ev.event_id)

\* the buckets of a recognizer: for a matching event with an id,
\* buckets[key].append(evid); without one, buckets.setdefault(key, [])
Buckets(nm, Recognizer(_)) ==
  LET Matches(ev) == Recognizer(EventText(ev))
  IN GroupBy(Filter(nm, Matches), BucketKey, EvHasId, EvId)

BucketMeta(b) ==
  <<<<"user", StrV(b.key[2])>>, <<"src_ip", StrV(b.key[3])>>,
    <<"minute", StrV(b.key[1])>>, <<"event_ids", ListV(Take(b.lst, 50))>>>>

PwdFinding(b) ==
  Finding("Password reset/change observed for " \o b.key[2] \o ".",
          6500, "auth.password_reset", BucketMeta(b))

MfaFinding(b) ==
  Finding("MFA activity observed (enroll/challenge/reset) for " \o b.key[2] \o ".",
          5500, "auth.mfa_activity", BucketMeta(b))

\* fault model: a bucket that captured no identifier gives no finding
HasIds(b) == b.lst # <<>>
IdentifiedActivity(nm) ==
  Map(Filter(Buckets(nm, PASSWORD_RESET_RE), HasIds), PwdFinding)
  \o Map(Filter(Buckets(nm, MFA_RE), HasIds), MfaFinding)

\* _pwd_mfa_activity(): the findings it appends
pwd_mfa_activity(nm) ==
  Map(Buckets(nm, PASSWORD_RESET_RE), PwdFinding)
  \o Map(Buckets(nm, MFA_RE), MfaFinding)

(***************************************************************************)
(* Sliding windows (passes 1 and 7): a deque of <<instant, event id>>      *)
(***************************************************************************)
\* fault model: the eviction with >= in place of >, which drops an entry
\* that is exactly span seconds old
EvictAtSpan(q, t, span) ==
  LET old == {k \in 1..Len(q) : \A j \in 1..k : t - q[j][1] >= span}
  IN SubSeq(q, Cardinality(old) + 1, Len(q))

\* while q and (t - q[0][0]).total_seconds() > span: q.popleft()
Evict(q, t, span) ==
  LET old == {k \in 1..Len(q) : \A j \in 1..k : t - q[j][1] > span}
  IN SubSeq(q, Cardinality(old) + 1, Len(q))

\* q.append((t, eid)) and the eviction that follows it
Push(q, t, eid, span) == Evict(Append(q, <<t, eid>>), t, span)

(***************************************************************************)
(* Pass 1: brute force                                                     *)
(***************************************************************************)
Is401(ev) == ev.status = IntV(401)

k_user(ev) == IF Truthy(ev.user) THEN PyStr(ev.user) ELSE "<unknown>"
k_pair(ev) == <<k_user(ev), IF Truthy(ev.src_ip) THEN PyStr(ev.src_ip) ELSE "<ip?>">>

\* fault model: a finding that lists no identifiers
UserFindingWithoutIds(key, q) ==
  Finding("Brute-force suspected against user " \o key, 9500, "auth.bruteforce_user",
          <<<<"window_sec", IntV(BRUTE_FORCE_WINDOW_SEC)>>, <<"failures", IntV(Len(q))>>,
            <<"user", StrV(key)>>, <<"event_ids", ListV(<<>>)>>>>)

UserFinding(key, q) ==
  Finding("Brute-force suspected against user " \o key, 9500, "auth.bruteforce_user",
          <<<<"window_sec", IntV(BRUTE_FORCE_WINDOW_SEC)>>, <<"failures", IntV(Len(q))>>,
            <<"user", StrV(key)>>, <<"event_ids", WindowIds(q)>>>>)

PairFinding(key, q) ==
  Finding("Brute-force suspected from " \o key[2] \o " targeting " \o key[1],
          9600, "auth.bruteforce_pair",
          <<<<"window_sec", IntV(BRUTE_FORCE_WINDOW_SEC)>>, <<"failures", IntV(Len(q))>>,
            <<"user", StrV(key[1])>>, <<"src_ip", StrV(key[2])>>,
            <<"event_ids", WindowIds(q)>>>>)

\* fault model: one deque behind all the keys
SharedWindow(wins, key) == IF wins = {} THEN <<>> ELSE (CHOOSE w \in wins : TRUE)[2]

\* the window of key in a defaultdict(deque), kept as a set of <<key, deque>>
Window(wins, key) ==
  IF \E w \in wins : w[1] = key THEN (CHOOSE w \in wins : w[1] = key)[2] ELSE <<>>

SetWindow(wins, key, q) == {w \in wins : w[1] # key} \cup {<<key, q>>}

\* fault model: the threshold test with > in place of >=
TriggersAbove(q, min) == Len(q) > min

\* the threshold test on a window after a push
Triggers(q, min) == Len(q) >= min

\* fault model: the loop of _brute_force without the two clear() calls, so
\* that a window slides on after it has triggered
BruteForceStepSliding(wu, wp, ev) ==
  IF ~Is401(ev) THEN [win_user |-> wu, win_pair |-> wp, out |-> <<>>]
  ELSE
    LET t == Instant(ev.ts)
        qu == Push(Window(wu, k_user(ev)), t, ev.event_id, BRUTE_FORCE_WINDOW_SEC)
        qp == Push(Window(wp, k_pair(ev)), t, ev.event_id, BRUTE_FORCE_WINDOW_SEC)
    IN [win_user |-> SetWindow(wu, k_user(ev), qu),
        win_pair |-> SetWindow(wp, k_pair(ev), qp),
        out |-> (IF Triggers(qu, BRUTE_FORCE_MIN_FAILS)
                 THEN <<UserFinding(k_user(ev), qu)>> ELSE <<>>)
                \o (IF Triggers(qp, BRUTE_FORCE_MIN_FAILS)
                    THEN <<PairFinding(k_pair(ev), qp)>> ELSE <<>>)]

\* fault model: the loop of _brute_force with the test of the pair's window
\* ahead of the test of the user's window
BruteForceStepPairFirst(wu, wp, ev) ==
  IF ~Is401(ev) THEN [win_user |-> wu, win_pair |-> wp, out |-> <<>>]
  ELSE
    LET t == Instant(ev.ts)
        qu == Push(Window(wu, k_user(ev)), t, ev.event_id, BRUTE_FORCE_WINDOW_SEC)
        qp == Push(Window(wp, k_pair(ev)), t, ev.event_id, BRUTE_FORCE_WINDOW_SEC)
        hitU == Triggers(qu, BRUTE_FORCE_MIN_FAILS)
        hitP == Triggers(qp, BRUTE_FORCE_MIN_FAILS)
    IN [win_user |-> SetWindow(wu, k_user(ev), IF hitU THEN <<>> ELSE qu),
        win_pair |-> SetWindow(wp, k_pair(ev), IF hitP THEN <<>> ELSE qp),
        out |-> (IF hitP THEN <<PairFinding(k_pair(ev), qp)>> ELSE <<>>)
                \o (IF hitU THEN <<UserFinding(k_user(ev), qu)>> ELSE <<>>)]

\* one iteration of the loop of _brute_force over time_sorted, from the
\* windows wu and wp: the windows it leaves and the findings it appends
BruteForceStep(wu, wp, ev) ==
  IF ~Is401(ev) THEN [win_user |-> wu, win_pair |-> wp, out |-> <<>>]
  ELSE
    LET t == Instant(ev.ts)
        qu == Push(Window(wu, k_user(ev)), t, ev.event_id, BRUTE_FORCE_WINDOW_SEC)
        qp == Push(Window(wp, k_pair(ev)), t, ev.event_id, BRUTE_FORCE_WINDOW_SEC)
        hitU == Triggers(qu, BRUTE_FORCE_MIN_FAILS)
        hitP == Triggers(qp, BRUTE_FORCE_MIN_FAILS)
    IN [win_user |-> SetWindow(wu, k_user(ev), IF hitU THEN <<>> ELSE qu),
        win_pair |-> SetWindow(wp, k_pair(ev), IF hitP THEN <<>> ELSE qp),
        out |-> (IF hitU THEN <<UserFinding(k_user(ev), qu)>> ELSE <<>>)
                \o (IF hitP THEN <<PairFinding(k_pair(ev), qp)>> ELSE <<>>)]

(***************************************************************************)
(* Pass 2: Auth0 protection blocked                                        *)
(***************************************************************************)
\* fault model: the identifier listed only when it is an integer
OwnIntId(ev) ==
  ListV(IF Truthy(ev.event_id) /\ ev.event_id.ty = "int" THEN <<ev.event_id>> ELSE <<>>)

\* [ev["event_id"]] if ev.get("event_id") else []
OwnId(ev) == ListV(IF Truthy(ev.event_id) THEN <<ev.event_id>> ELSE <<>>)

IsBlocked(ev) ==
  ev.status = IntV(403)
  /\ (Contains(ev.raw.s, "brute-force") \/ Contains(ev.raw.s, "blocked"))

BlockedFinding(ev) ==
  Finding("Auth0 protection blocked login (user=" \o PyStr(ev.user)
            \o " ip=" \o PyStr(ev.src_ip) \o ")",
          9000, "auth.blocked",
          <<<<"status", ev.status>>, <<"event_ids", OwnId(ev)>>>>)

\* fault model: one finding for all the blocked logins of a batch
FirstBlockedOnly(nm) ==
  IF Filter(nm, IsBlocked) = <<>> THEN <<>> ELSE <<BlockedFinding(Filter(nm, IsBlocked)[1])>>

\* _blocked_protection(): the findings it appends
blocked_protection(nm) == Map(Filter(nm, IsBlocked), BlockedFinding)

(***************************************************************************)
(* Pass 3: high-risk source.  Risk values are in 1/100.                    *)
(***************************************************************************)
\* s.strip(" ;,")
RECURSIVE StripChars(_, _)
StripChars(s, set) ==
  IF s # "" /\ Head(s) \in set THEN StripChars(Tail(s), set)
  ELSE IF s # "" /\ Ch(s, Len(s)) \in set THEN StripChars(SubSeq(s, 1, Len(s) - 1), set)
  ELSE s

\* frag.split()[0]: the first whitespace-delimited token; "" stands for the
\* IndexError of an empty split
FirstToken(frag) ==
  LET f == lstrip(frag)
      e == FirstWs(f)
  IN IF e = 0 THEN f ELSE SubSeq(f, 1, e - 1)

\* float(tok) for [sign] digits [. digits], digits [.] and . digits, with at
\* most two fractional digits, and for [sign] inf, infinity and nan in any
\* case; anything else is the ValueError branch.  (Exponents are not
\* modelled; no input of the model uses them.)
ParseFloat(tok) ==
  LET signed == tok # "" /\ Head(tok) \in {"+", "-"}
      body == IF signed THEN Tail(tok) ELSE tok
      neg == signed /\ Head(tok) = "-"
      dot == Find(body, ".")
      whole == IF dot = 0 THEN body ELSE SubSeq(body, 1, dot - 1)
      frac == IF dot = 0 THEN "" ELSE SubSeq(body, dot + 1, Len(body))
      mag == (IF whole = "" THEN 0 ELSE 100 * StrToNat(whole))
             + (IF frac = "" THEN 0
                ELSE IF Len(frac) = 1 THEN 10 * StrToNat(frac) ELSE StrToNat(frac))
  IN IF lower(body) \in {"inf", "infinity"} THEN Ok(InfV(neg))
     ELSE IF lower(body) = "nan" THEN Ok(NanV)
     ELSE IF AllIn(whole, Digits) /\ AllIn(frac, Digits) /\ Len(frac) <= 2
             /\ (whole # "" \/ frac # "")
     THEN Ok(FltV(IF neg THEN 0 - mag ELSE mag))
     ELSE Fail

\* the try block of _high_risk_source: the risk value, 0.9 on any exception
RiskValue(raw) ==
  LET tok == StripChars(FirstToken(After(raw, "risk=")), {" ", ";", ","})
  IN IF FirstToken(After(raw, "risk=")) # "" /\ ParseFloat(tok).ok
     THEN ParseFloat(tok).v ELSE FltV(90)

Min(a, b) == IF a < b THEN a ELSE b
Max(a, b) == IF a > b THEN a ELSE b

\* fault model: the score without the clamp
RiskScoreUnclamped(val) ==
  CASE val.ty = "nan" -> 0
    [] val.ty = "inf" -> IF val.neg THEN 0 ELSE 10000
    [] OTHER -> 8500 + 15 * val.v

\* min(1.0, max(0.0, 0.85 + 0.15 * val)), in 1/10000.  0.85 + 0.15 * nan is
\* nan, max(0.0, nan) is 0.0 (nan > 0.0 is false, so max keeps its first
\* argument); 0.85 + 0.15 * inf is inf and min(1.0, inf) is 1.0
RiskScore(val) ==
  CASE val.ty = "nan" -> 0
    [] val.ty = "inf" -> IF val.neg THEN 0 ELSE 10000
    [] OTHER -> Min(10000, Max(0, 8500 + 15 * val.v))

HighRiskFinding(ev) ==
  Finding("High-risk login source (user=" \o PyStr(ev.user)
            \o " ip=" \o PyStr(ev.src_ip) \o ")",
          RiskScore(RiskValue(ev.raw.s)), "auth.high_risk",
          <<<<"risk", RiskValue(ev.raw.s)>>, <<"event_ids", OwnId(ev)>>>>)

TorFinding(ev) ==
  Finding("Login from TOR-like source (user=" \o PyStr(ev.user)
            \o " ip=" \o PyStr(ev.src_ip) \o ")",
          8800, "auth.tor", <<<<"event_ids", OwnId(ev)>>>>)

\* fault model: an event whose risk token is no number is passed over
HasParsedRisk(ev) ==
  /\ Contains(ev.raw.s, "risk=")
  /\ ParseFloat(StripChars(FirstToken(After(ev.raw.s, "risk=")), {" ", ";", ","})).ok

HasRisk(ev) == Contains(ev.raw.s, "risk=")
HasTor(ev) == Contains(ev.raw.s, "tor") \/ Contains(ev.raw.s, "tor_exit")
RiskOrTor(ev) == HasRisk(ev) \/ HasTor(ev)

\* fault model: the TOR test made before the risk test
TorFirstFinding(ev) == IF HasTor(ev) THEN TorFinding(ev) ELSE HighRiskFinding(ev)

\* if "risk=" in raw: ... elif "tor" in raw or "tor_exit" in raw: ...
RiskOrTorFinding(ev) == IF HasRisk(ev) THEN HighRiskFinding(ev) ELSE TorFinding(ev)

\* _high_risk_source(): the findings it appends
high_risk_source(nm) == Map(Filter(nm, RiskOrTor), RiskOrTorFinding)

(***************************************************************************)
(* Pass 4: high error rate in 10-minute buckets, by user and by host       *)
(***************************************************************************)
\* b = ts.replace(second=0, microsecond=0); b - timedelta(minutes=b.minute % 10),
\* as the instant the dict key compares by
BucketStart(ts) ==
  Instant(ts) - (ts.wall % 60) - 60 * (Minute(ts) % ERROR_RATE_WINDOW_MIN)

UserBucket(ev) == <<"user", PyStr(ev.user), BucketStart(ev.ts)>>
HostBucket(ev) == <<"host", ev.host.s, BucketStart(ev.ts)>>

\* by_bucket after the loop over time_sorted: every event is appended to the
\* list of its user bucket and then to the list of its host bucket
by_bucket(ts) ==
  LET twice == [k \in 1..(2 * Len(ts)) |->
                  [ev |-> ts[(k + 1) \div 2],
                   key |-> IF k % 2 = 1 THEN UserBucket(ts[(k + 1) \div 2])
                           ELSE HostBucket(ts[(k + 1) \div 2])]]
      Key(x) == x.key
      Keep(x) == TRUE
      Val(x) == x.ev
  IN GroupBy(twice, Key, Keep, Val)

\* x["status"] and 400 <= x["status"] < 600
IsError(ev) == Truthy(ev.status) /\ 400 <= ev.status.n /\ ev.status.n < 600

Errors(lst) == Len(Filter(lst, IsError))

\* f"{ratio:.0%}" for ratio = errors / total: the percentage rounded to the
\* nearest integer, ties to even
Percent(errors, total) ==
  LET q == (100 * errors) \div total
      r == (100 * errors) % total
  IN ToString(IF 2 * r > total \/ (2 * r = total /\ q % 2 = 1) THEN q + 1 ELSE q) \o "%"

HasTruthyId(ev) == Truthy(ev.event_id)

\* fault model: the two tests with > in place of >=
IsHighErrorRateAbove(lst) ==
  Len(lst) > ERROR_RATE_MIN_EVENTS
  /\ 100 * Errors(lst) > ERROR_RATE_THRESHOLD * Len(lst)

\* len(lst) >= ERROR_RATE_MIN_EVENTS and errors / len(lst) >= ERROR_RATE_THRESHOLD
IsHighErrorRate(lst) ==
  Len(lst) >= ERROR_RATE_MIN_EVENTS
  /\ 100 * Errors(lst) >= ERROR_RATE_THRESHOLD * Len(lst)

ErrorRateFinding(b) ==
  Finding("High error rate (" \o Percent(Errors(b.lst), Len(b.lst))
            \o ") in 10-min window for " \o b.key[2],
          IF 5 * Errors(b.lst) >= 4 * Len(b.lst) THEN 8200 ELSE 7500,
          "web.error_" \o b.key[1],
          <<<<"events", IntV(Len(b.lst))>>, <<"errors", IntV(Errors(b.lst))>>,
            <<"event_ids", ListV(Take(Map(Filter(b.lst, HasTruthyId), EvId), 50))>>>>)

BucketIsHigh(b) == IsHighErrorRate(b.lst)

\* _high_error_rate(): the findings it appends
high_error_rate(ts) == Map(Filter(by_bucket(ts), BucketIsHigh), ErrorRateFinding)

(***************************************************************************)
(* Pass 5: rare user-agent                                                 *)
(***************************************************************************)
\* [e.get("event_id") for e in norm if e["user_agent"] == ua and e.get("event_id")][:10]
UaIds(nm, ua) ==
  LET Match(e) == e.user_agent.s = ua /\ Truthy(e.event_id)
  IN ListV(Take(Map(Filter(nm, Match), EvId), 10))

\* fault model: the test with <= in place of <
IsRareOrPaired(nm, ua) == ua_counts(nm, ua) <= RARE_UA_MIN_COUNT

\* ua_counts[ua] < RARE_UA_MIN_COUNT
IsRare(nm, ua) == ua_counts(nm, ua) < RARE_UA_MIN_COUNT

RareUaFinding(nm, ua) ==
  Finding("Rare user-agent observed: '" \o ua \o "'",
          IF ua_counts(nm, ua) = 1 THEN 6200 ELSE 5800, "web.rare_ua",
          <<<<"count", IntV(ua_counts(nm, ua))>>, <<"event_ids", UaIds(nm, ua)>>>>)

\* _rare_ua(): the findings it appends: one for every rare user agent, at
\* its first event (later events find it in seen)
rare_ua(nm) ==
  LET Ua(ev) == ev.user_agent.s
      Reported(ev) == Ua(ev) # "" /\ IsRare(nm, Ua(ev))
      Keep(ev) == TRUE
      Report(b) == RareUaFinding(nm, b.key)
  IN Map(GroupBy(Filter(nm, Reported), Ua, Keep, Ua), Report)

(***************************************************************************)
(* Pass 6: off-hours logins                                                *)
(***************************************************************************)
\* fault model: the range without its last hour
InOffHoursBeforeEnd(ts) == OFF_HOURS_START <= Hour(ts) /\ Hour(ts) < OFF_HOURS_END

\* OFF_HOURS_START <= ev["ts"].hour <= OFF_HOURS_END
InOffHours(ts) == OFF_HOURS_START <= Hour(ts) /\ Hour(ts) <= OFF_HOURS_END

IsOffHoursLogin(ev) ==
  ev.status = IntV(200) /\ ev.ts.ty # "none" /\ InOffHours(ev.ts) /\ Truthy(ev.event_id)

\* _off_hours_logins(): the findings it appends
off_hours_logins(ts) ==
  LET ids == Map(Filter(ts, IsOffHoursLogin), EvId)
  IN IF ids # <<>>
     THEN <<Finding("Off-hours successful logins detected", 5500, "auth.offhours",
                    <<<<"event_ids", ListV(Take(ids, 50))>>>>)>>
     ELSE <<>>

(***************************************************************************)
(* Pass 7: token-exchange failure burst                                    *)
(***************************************************************************)
\* "/oauth/token" not in (ev["url"] or "") on a url that is neither a
\* string nor a list: TypeError
TokenRaises(ev) == Is401(ev) /\ ev.url.ty \notin {"str", "list"}

\* "/oauth/token" in url: a substring of a string, an element of a list
HasTokenPath(url) ==
  IF url.ty = "list" THEN \E k \in 1..Len(url.l) : url.l[k] = StrV("/oauth/token")
  ELSE Contains(url.s, "/oauth/token")

IsTokenFailure(ev) == Is401(ev) /\ HasTokenPath(ev.url)

TokenHost(ev) == IF ev.host.s = "" THEN "<auth>" ELSE ev.host.s

TokenFinding(key, q) ==
  Finding("Spike of token-exchange failures at " \o key, 8000, "auth.token_fail_burst",
          <<<<"window_sec", IntV(300)>>, <<"failures", IntV(Len(q))>>,
            <<"event_ids", WindowIds(q)>>>>)

\* one iteration of the loop of _token_exchange_failures over time_sorted,
\* from the windows w: the windows it leaves and the findings it appends
TokenStep(w, ev) ==
  IF ~IsTokenFailure(ev) THEN [win |-> w, out |-> <<>>]
  ELSE
    LET q == Push(Window(w, TokenHost(ev)), Instant(ev.ts), ev.event_id, 300)
        hit == Triggers(q, 15)
    IN [win |-> SetWindow(w, TokenHost(ev), IF hit THEN <<>> ELSE q),
        out |-> IF hit THEN <<TokenFinding(TokenHost(ev), q)>> ELSE <<>>]

(***************************************************************************)
(* De-duplication: _freeze and the final loop of detect_anomalies          *)
(***************************************************************************)
\* the printable ASCII characters in the order of their code points (all
\* but the double quote, the backslash and the backtick, which no string of
\* the model holds)
KeyAlphabet ==
  " !#$%&'()*+,-./0123456789:;<=>?@ABCDEFGHIJKLMNOPQRSTUVWXYZ[]^_abcdefghijklmnopqrstuvwxyz{|}~"

\* a < b for strings over KeyAlphabet
RECURSIVE StrLess(_, _)
StrLess(a, b) ==
  IF b = "" THEN FALSE
  ELSE IF a = "" THEN TRUE
  ELSE IF Head(a) = Head(b) THEN StrLess(Tail(a), Tail(b))
  ELSE Find(KeyAlphabet, Head(a)) < Find(KeyAlphabet, Head(b))

\* sorted(items): the keys of a dict are distinct, so the key alone orders
SortItems(items) ==
  LET Rank(k) == Cardinality({j \in 1..Len(items) :
                    j = k \/ StrLess(items[j][1], items[k][1])})
  IN [r \in 1..Len(items) |-> items[CHOOSE k \in 1..Len(items) : Rank(k) = r]]

\* fault model: the frozen elements of a list sorted, as those of a set are
\* (integers by value; a list with other elements is left as it is)
FrozenSorted(l) ==
  LET Rank(k) == Cardinality({j \in 1..Len(l) :
                    l[j].n < l[k].n \/ (l[j].n = l[k].n /\ j <= k)})
  IN IF \A k \in 1..Len(l) : l[k].ty = "int"
     THEN TupleV([r \in 1..Len(l) |-> l[CHOOSE k \in 1..Len(l) : Rank(k) = r]])
     ELSE TupleV(l)

\* tuple(_freeze(v) for v in x): the frozen elements in the order of the list
FrozenList(l) == TupleV(l)

\* _freeze(x): a dict becomes the tuple of its (key, frozen value) pairs
\* sorted by key; a list becomes the tuple of its frozen elements, in the
\* order of the list; anything else is itself
RECURSIVE freeze(_)
freeze(x) ==
  IF x.ty = "dict"
  THEN TupleV(SortItems([k \in 1..Len(x.items) |->
                           <<x.items[k][1], freeze(x.items[k][2])>>]))
  ELSE IF x.ty \in {"list", "tuple"}
  THEN FrozenList([k \in 1..Len(x.l) |-> freeze(x.l[k])])
  ELSE x

\* key = (a.get("kind"), a.get("reason"), _freeze(a.get("meta") or {}))
DedupKey(a) == <<a.kind, a.reason, freeze(a.meta)>>

\* fault model: a membership test that looks at kind and reason only
MetaBlindDuplicate(a, seenKeys) ==
  \E key \in seenKeys : key[1] = a.kind /\ key[2] = a.reason

\* a key that holds a nan equals no key of seen: every float("nan") is an
\* object of its own, and nan == nan is false
HasNan(a) == \E k \in 1..Len(a.meta.items) : a.meta.items[k][2].ty = "nan"

\* if key in seen: continue
IsDuplicate(a, seenKeys) == ~HasNan(a) /\ DedupKey(a) \in seenKeys

(***************************************************************************)
(* Grouping of the findings for the report: _group_anomalies of app.py.    *)
(* rows are the events of the upload; id_to_event maps the identifier of   *)
(* an event to the event, the last one when several share an identifier.   *)
(***************************************************************************)
\* the identifier of an input event: event_id, or id when event_id is None
InputId(e) == IF e.event_id.ty # "none" THEN e.event_id ELSE e.id

\* eid in id_to_event, and id_to_event[eid]
InMap(rows, eid) ==
  \E k \in 1..Len(rows) : HasId(InputId(rows[k])) /\ InputId(rows[k]) = eid
Row(rows, eid) ==
  rows[CHOOSE k \in 1..Len(rows) :
         /\ InputId(rows[k]) = eid
         /\ \A j \in (k + 1)..Len(rows) : InputId(rows[j]) # eid]

\* sorted(S) for a set of strings
SortStrings(S) ==
  [r \in 1..Cardinality(S) |->
     CHOOSE x \in S : Cardinality({y \in S : StrLess(y, x)}) = r - 1]

\* the value of the defaultdict for a kind not seen before
NewBucket(kind) ==
  [kind |-> kind, count |-> 0, reasons |-> {}, users |-> {}, src_ips |-> {},
   event_ids |-> <<>>, samples |-> <<>>]

\* the second loop over ev_ids: up to 25 distinct identifiers per kind, and
\* the events of those that are in the map
RECURSIVE KeepSamples(_, _, _)
KeepSamples(bucket, ev_ids, rows) ==
  IF ev_ids = <<>> \/ Len(bucket.event_ids) >= 25 THEN bucket
  ELSE LET eid == Head(ev_ids)
           known == \E n \in 1..Len(bucket.event_ids) : bucket.event_ids[n] = eid
       IN KeepSamples(
            IF known THEN bucket
            ELSE [bucket EXCEPT !.event_ids = Append(@, eid),
                                !.samples = IF InMap(rows, eid)
                                            THEN Append(@, Row(rows, eid)) ELSE @],
            Tail(ev_ids), rows)

\* the body of the loop over rich_anoms, on the buckets g in the order in
\* which their kinds came up
AddFinding(g, a, rows) ==
  LET kind == IF a.kind # "" THEN a.kind ELSE "other"
      ev_ids == IF Truthy(Get(a.meta, "event_ids")) THEN Get(a.meta, "event_ids").l
                ELSE <<>>
      found == {n \in 1..Len(ev_ids) : InMap(rows, ev_ids[n])}
      at == {k \in 1..Len(g) : g[k].kind = kind}
      old == IF at = {} THEN NewBucket(kind) ELSE g[CHOOSE k \in at : TRUE]
      counted ==
        [old EXCEPT
           !.count = @ + 1,
           !.reasons = IF a.reason # "" THEN @ \cup {a.reason} ELSE @,
           !.users = @ \cup {Row(rows, ev_ids[n]).user.s :
                               n \in {m \in found : Truthy(Row(rows, ev_ids[m]).user)}},
           !.src_ips = @ \cup {Row(rows, ev_ids[n]).src_ip.s :
                                 n \in {m \in found : Truthy(Row(rows, ev_ids[m]).src_ip)}}]
      new == KeepSamples(counted, ev_ids, rows)
  IN IF at = {} THEN Append(g, new) ELSE [g EXCEPT ![CHOOSE k \in at : TRUE] = new]

RECURSIVE GroupBuckets(_, _, _)
GroupBuckets(g, rich_anoms, rows) ==
  IF rich_anoms = <<>> THEN g
  ELSE GroupBuckets(AddFinding(g, Head(rich_anoms), rows), Tail(rich_anoms), rows)

\* the group made of a bucket
Group(v) ==
  [kind |-> v.kind, count |-> v.count,
   reasons |-> Take(SortStrings(v.reasons), 5),
   users |-> Take(SortStrings(v.users), 10),
   src_ips |-> Take(SortStrings(v.src_ips), 10),
   samples |-> Take(v.samples, 25)]

\* fault model: the groups left in the order in which their kinds came up
InsertionOrder(out) == out

\* out.sort(key=lambda x: x["count"], reverse=True): a stable sort
SortByCount(out) ==
  LET Rank(k) == Cardinality({j \in 1..Len(out) :
                    out[j].count > out[k].count
                    \/ (out[j].count = out[k].count /\ j <= k)})
  IN [r \in 1..Len(out) |-> out[CHOOSE k \in 1..Len(out) : Rank(k) = r]]

\* _group_anomalies(rich_anoms, id_to_event)
group_anomalies(rich_anoms, rows) ==
  SortByCount(Map(GroupBuckets(<<>>, rich_anoms, rows), Group))

\* the worker of app.py persisting a finding: ev_id = a.get("event_id") or
\* (meta.get("event_ids", [None])[0]); a finding has no "event_id" of its
\* own, and [0] of an empty list raises IndexError
FirstEventId(a) ==
  LET ids == Get(a.meta, "event_ids").l
  IN IF ids = <<>> THEN Fail ELSE Ok(ids[1])

(***************************************************************************)
(* The passes of detect_anomalies run in any order.  Each pass keeps what  *)
(* it appends, and the loops of _brute_force and                           *)
(* _token_exchange_failures their own place in time_sorted.                *)
(***************************************************************************)
\* the passes, in the order detect_anomalies calls them
Passes ==
  <<"pwd_mfa", "brute_force", "blocked", "high_risk", "error_rate", "rare_ua",
    "off_hours", "token">>

PassNames == {Passes[k] : k \in 1..Len(Passes)}

LoopPasses == {"brute_force", "token"}

\* no pass has run, and none is scheduled.  todo is the order in which the
\* passes will take their steps: a pass without a loop takes one step,
\* a loop one step for every event of time_sorted and one to end
NoSchedule ==
  [todo |-> <<>>, ran |-> {}, at |-> [p \in LoopPasses |-> 1],
   parts |-> [p \in PassNames |-> <<>>]]

(***************************************************************************)
(* detect_anomalies as a state machine.  Every invocation has its own      *)
(* locals (norm, time_sorted, anomalies, the windows, seen, unique);       *)
(* invocations run interleaved, as the analyses of different uploads do.   *)
(* A slot whose pc is "idle" is a call that is not made.                   *)
(***************************************************************************)
Invocations == {"a", "b", "c"}

\* fault model: one list of candidates for all calls, as a module-level
\* list or a mutable default argument would be
SharedCandidateList(i) == anomalies["a"] \o anomalies["b"] \o anomalies["c"]

\* the list of candidates the de-dupe loop of an invocation runs over:
\* anomalies is a local of the call
CandidateList(i) == anomalies[i]

Goto(i, label) == pc' = [pc EXCEPT ![i] = label]

\* anomalies.append(...) for every finding of the sequence
Extend(i, findings) ==
  anomalies' = [anomalies EXCEPT ![i] = @ \o findings]

\* a pass without a loop of its own in the model appends and is done
Emit(i, label, findings) ==
  /\ Extend(i, findings)
  /\ Goto(i, label)
  /\ cursor' = [cursor EXCEPT ![i] = 1]
  /\ UNCHANGED <<events, norm, time_sorted, win_user, win_pair, win, seen, unique, result, grouped, sched, service>>

\* an exception leaves detect_anomalies: nothing is returned
Raise(i) ==
  /\ Goto(i, "raised")
  /\ UNCHANGED <<events, norm, time_sorted, anomalies, cursor,
                 win_user, win_pair, win, seen, unique, result, grouped, sched, service>>

\* the head of detect_anomalies: the early return, the normalisation loop,
\* ua_counts, time_sorted and the empty candidate list
Normalize(i) ==
  /\ pc[i] = "start"
  /\ IF events[i] = <<>>
     THEN /\ result' = [result EXCEPT ![i] = <<>>]
          /\ Goto(i, "done")
          /\ UNCHANGED <<events, norm, time_sorted, anomalies, cursor,
                         win_user, win_pair, win, seen, unique, grouped, sched, service>>
     ELSE IF \E k \in 1..Len(events[i]) : NormalizeRaises(events[i][k])
     THEN Raise(i)
     ELSE LET nm == Normalized(events[i])
          IN IF SortRaises(nm) THEN Raise(i)
             ELSE /\ norm' = [norm EXCEPT ![i] = nm]
                  /\ time_sorted' = [time_sorted EXCEPT ![i] = TimeSorted(nm)]
                  /\ anomalies' = [anomalies EXCEPT ![i] = <<>>]
                  /\ Goto(i, "pwd_mfa")
                  /\ UNCHANGED <<events, cursor, win_user, win_pair, win,
                                 seen, unique, result, grouped, sched, service>>

PwdMfaActivity(i) ==
  /\ pc[i] = "pwd_mfa"
  /\ IF PwdMfaRaises(norm[i]) THEN Raise(i)
     ELSE Emit(i, "brute_force", pwd_mfa_activity(norm[i]))

\* _brute_force: one iteration of its loop, or the end of the loop
BruteForce(i) ==
  /\ pc[i] = "brute_force"
  /\ IF cursor[i] > Len(time_sorted[i])
     THEN /\ Goto(i, "blocked")
          /\ win_user' = [win_user EXCEPT ![i] = {}]
          /\ win_pair' = [win_pair EXCEPT ![i] = {}]
          /\ UNCHANGED <<events, norm, time_sorted, anomalies, cursor,
                         win, seen, unique, result, grouped, sched, service>>
     ELSE LET st == BruteForceStep(win_user[i], win_pair[i], time_sorted[i][cursor[i]])
          IN /\ win_user' = [win_user EXCEPT ![i] = st.win_user]
             /\ win_pair' = [win_pair EXCEPT ![i] = st.win_pair]
             /\ Extend(i, st.out)
             /\ cursor' = [cursor EXCEPT ![i] = @ + 1]
             /\ UNCHANGED <<events, pc, norm, time_sorted, win, seen, unique, result, grouped, sched, service>>

BlockedProtection(i) ==
  /\ pc[i] = "blocked"
  /\ Emit(i, "high_risk", blocked_protection(norm[i]))

HighRiskSource(i) ==
  /\ pc[i] = "high_risk"
  /\ Emit(i, "error_rate", high_risk_source(norm[i]))

HighErrorRate(i) ==
  /\ pc[i] = "error_rate"
  /\ Emit(i, "rare_ua", high_error_rate(time_sorted[i]))

RareUa(i) ==
  /\ pc[i] = "rare_ua"
  /\ Emit(i, "off_hours", rare_ua(norm[i]))

OffHoursLogins(i) ==
  /\ pc[i] = "off_hours"
  /\ Emit(i, "token", off_hours_logins(time_sorted[i]))

\* _token_exchange_failures: one iteration of its loop, or the end of the loop
TokenExchangeFailures(i) ==
  /\ pc[i] = "token"
  /\ IF cursor[i] > Len(time_sorted[i])
     THEN /\ Goto(i, "dedupe")
          /\ win' = [win EXCEPT ![i] = {}]
          /\ cursor' = [cursor EXCEPT ![i] = 1]
          /\ UNCHANGED <<events, norm, time_sorted, anomalies,
                         win_user, win_pair, seen, unique, result, grouped, sched, service>>
     ELSE IF TokenRaises(time_sorted[i][cursor[i]]) THEN Raise(i)
     ELSE LET st == TokenStep(win[i], time_sorted[i][cursor[i]])
          IN /\ win' = [win EXCEPT ![i] = st.win]
             /\ Extend(i, st.out)
             /\ cursor' = [cursor EXCEPT ![i] = @ + 1]
             /\ UNCHANGED <<events, pc, norm, time_sorted, win_user, win_pair,
                            seen, unique, result, grouped, sched, service>>

\* the de-dupe loop: one iteration, or the return of unique
DeDupe(i) ==
  /\ pc[i] = "dedupe"
  /\ IF cursor[i] > Len(CandidateList(i))
     THEN /\ result' = [result EXCEPT ![i] = unique[i]]
          /\ Goto(i, "done")
          /\ UNCHANGED <<events, norm, time_sorted, anomalies, cursor,
                         win_user, win_pair, win, seen, unique, grouped, sched, service>>
     ELSE LET a == CandidateList(i)[cursor[i]]
          IN /\ IF IsDuplicate(a, seen[i])
                THEN UNCHANGED <<seen, unique>>
                ELSE /\ seen' = [seen EXCEPT ![i] = @ \cup {DedupKey(a)}]
                     /\ unique' = [unique EXCEPT ![i] = Append(@, a)]
             /\ cursor' = [cursor EXCEPT ![i] = @ + 1]
             /\ UNCHANGED <<events, pc, norm, time_sorted, anomalies,
                            win_user, win_pair, win, result, grouped, sched, service>>

\* the caller of detect_anomalies: grouped = _group_anomalies(found,
\* id_to_event), on the findings returned and the events of the batch
GroupAnomalies(i) ==
  /\ pc[i] = "done"
  /\ grouped' = [grouped EXCEPT ![i] = group_anomalies(result[i], events[i])]
  /\ Goto(i, "grouped")
  /\ UNCHANGED <<events, norm, time_sorted, anomalies, cursor,
                 win_user, win_pair, win, seen, unique, result, sched, service>>

(***************************************************************************)
(* The passes in another order: what detect_anomalies does between the     *)
(* normalisation and the de-dupe loop, with the eight calls of             *)
(* anomaly.py:301-308 taken in a given order and the two loops             *)
(* interleaved with each other and with the other passes, iteration by     *)
(* iteration                                                               *)
(***************************************************************************)
\* fault model: an off-hours pass that reads the candidate list, and
\* appends its finding only when no other pass has appended one
PassOutputIfFirst(i, p) ==
  CASE p = "pwd_mfa" -> pwd_mfa_activity(norm[i])
    [] p = "blocked" -> blocked_protection(norm[i])
    [] p = "high_risk" -> high_risk_source(norm[i])
    [] p = "error_rate" -> high_error_rate(time_sorted[i])
    [] p = "rare_ua" -> rare_ua(norm[i])
    [] p = "off_hours" -> IF \E q \in PassNames : sched[i].parts[q] # <<>> THEN <<>>
                          ELSE off_hours_logins(time_sorted[i])

\* what a pass without a loop of its own in the model appends
PassOutput(i, p) ==
  CASE p = "pwd_mfa" -> pwd_mfa_activity(norm[i])
    [] p = "blocked" -> blocked_protection(norm[i])
    [] p = "high_risk" -> high_risk_source(norm[i])
    [] p = "error_rate" -> high_error_rate(time_sorted[i])
    [] p = "rare_ua" -> rare_ua(norm[i])
    [] p = "off_hours" -> off_hours_logins(time_sorted[i])

\* the next step is one of pass p
Due(i, p) == sched[i].todo # <<>> /\ Head(sched[i].todo) = p

\* the passes are started, to take their steps in the order todo
Fork(i, todo) ==
  /\ pc[i] = "pwd_mfa"
  /\ Goto(i, "passes")
  /\ sched' = [sched EXCEPT ![i].todo = todo]
  /\ UNCHANGED <<events, norm, time_sorted, anomalies, cursor,
                 win_user, win_pair, win, seen, unique, result, grouped, service>>

\* a pass without a loop runs
AnyPass(i, p) ==
  /\ pc[i] = "passes"
  /\ p \in PassNames \ LoopPasses
  /\ Due(i, p)
  /\ IF p = "pwd_mfa" /\ PwdMfaRaises(norm[i]) THEN Raise(i)
     ELSE /\ sched' = [sched EXCEPT ![i].todo = Tail(@),
                                    ![i].ran = @ \cup {p},
                                    ![i].parts[p] = PassOutput(i, p)]
          /\ UNCHANGED <<events, pc, norm, time_sorted, anomalies, cursor,
                         win_user, win_pair, win, seen, unique, result, grouped, service>>

\* _brute_force: one iteration of its loop, or the end of the loop
AnyBruteForce(i) ==
  /\ pc[i] = "passes"
  /\ Due(i, "brute_force")
  /\ IF sched[i].at["brute_force"] > Len(time_sorted[i])
     THEN /\ sched' = [sched EXCEPT ![i].todo = Tail(@), ![i].ran = @ \cup {"brute_force"}]
          /\ win_user' = [win_user EXCEPT ![i] = {}]
          /\ win_pair' = [win_pair EXCEPT ![i] = {}]
     ELSE LET st == BruteForceStep(win_user[i], win_pair[i],
                                   time_sorted[i][sched[i].at["brute_force"]])
          IN /\ win_user' = [win_user EXCEPT ![i] = st.win_user]
             /\ win_pair' = [win_pair EXCEPT ![i] = st.win_pair]
             /\ sched' = [sched EXCEPT ![i].todo = Tail(@),
                                       ![i].at["brute_force"] = @ + 1,
                                       ![i].parts["brute_force"] = @ \o st.out]
  /\ UNCHANGED <<events, pc, norm, time_sorted, anomalies, cursor,
                 win, seen, unique, result, grouped, service>>

\* _token_exchange_failures: one iteration of its loop, or the end of the loop
AnyTokenExchangeFailures(i) ==
  /\ pc[i] = "passes"
  /\ Due(i, "token")
  /\ IF sched[i].at["token"] > Len(time_sorted[i])
     THEN /\ sched' = [sched EXCEPT ![i].todo = Tail(@), ![i].ran = @ \cup {"token"}]
          /\ win' = [win EXCEPT ![i] = {}]
          /\ UNCHANGED <<events, pc, norm, time_sorted, anomalies, cursor,
                         win_user, win_pair, seen, unique, result, grouped, service>>
     ELSE IF TokenRaises(time_sorted[i][sched[i].at["token"]]) THEN Raise(i)
     ELSE LET st == TokenStep(win[i], time_sorted[i][sched[i].at["token"]])
          IN /\ win' = [win EXCEPT ![i] = st.win]
             /\ sched' = [sched EXCEPT ![i].todo = Tail(@),
                                       ![i].at["token"] = @ + 1,
                                       ![i].parts["token"] = @ \o st.out]
             /\ UNCHANGED <<events, pc, norm, time_sorted, anomalies, cursor,
                            win_user, win_pair, seen, unique, result, grouped, service>>

\* what the passes appended, pass by pass in the order of Passes
RECURSIVE InDeclarationOrder(_, _)
InDeclarationOrder(parts, k) ==
  IF k > Len(Passes) THEN <<>>
  ELSE parts[Passes[k]] \o InDeclarationOrder(parts, k + 1)

\* every pass is over: the candidate list is what they appended, in the
\* order of the passes
Gather(i) ==
  /\ pc[i] = "passes"
  /\ sched[i].ran = PassNames
  /\ anomalies' = [anomalies EXCEPT ![i] = InDeclarationOrder(sched[i].parts, 1)]
  /\ cursor' = [cursor EXCEPT ![i] = 1]
  /\ Goto(i, "dedupe")
  /\ UNCHANGED <<events, norm, time_sorted, win_user, win_pair, win,
                 seen, unique, result, grouped, sched, service>>

Next ==
  \E i \in Invocations :
    \/ Normalize(i)
    \/ PwdMfaActivity(i)
    \/ BruteForce(i)
    \/ BlockedProtection(i)
    \/ HighRiskSource(i)
    \/ HighErrorRate(i)
    \/ RareUa(i)
    \/ OffHoursLogins(i)
    \/ TokenExchangeFailures(i)
    \/ DeDupe(i)
    \/ GroupAnomalies(i)

\* the calls of a run: for every slot, whether detect_anomalies is called
\* and on which batch
Call(batch) == [called |-> TRUE, batch |-> batch]
NoCall == [called |-> FALSE, batch |-> <<>>]

\* one call, on a batch of the set
Single(batches) ==
  {[i \in Invocations |-> IF i = "a" THEN Call(x) ELSE NoCall] : x \in batches}

\* the state at the calls of detect_anomalies
InitOn(calls) ==
  \E c \in calls :
    /\ events = [i \in Invocations |-> c[i].batch]
    /\ pc = [i \in Invocations |-> IF c[i].called THEN "start" ELSE "idle"]
    /\ norm = [i \in Invocations |-> <<>>]
    /\ time_sorted = [i \in Invocations |-> <<>>]
    /\ anomalies = [i \in Invocations |-> <<>>]
    /\ cursor = [i \in Invocations |-> 1]
    /\ win_user = [i \in Invocations |-> {}]
    /\ win_pair = [i \in Invocations |-> {}]
    /\ win = [i \in Invocations |-> {}]
    /\ seen = [i \in Invocations |-> {}]
    /\ unique = [i \in Invocations |-> <<>>]
    /\ result = [i \in Invocations |-> <<>>]
    /\ grouped = [i \in Invocations |-> <<>>]
    /\ sched = [i \in Invocations |-> NoSchedule]
    /\ uploads = <<>>
    /\ requests = <<>>
    /\ workers = <<>>

(***************************************************************************)
(* The web service of app.py: POST /api/upload, POST /api/analyze and the  *)
(* analysis worker _process_analysis, over the rows of the uploads table.  *)
(* uploads is the table, a row's id its place in it; LogEvent and Anomaly  *)
(* rows are counted on the row of their upload.  A request and a worker    *)
(* each have a database session of their own; what a session has loaded   *)
(* of a row it keeps until it commits (the session then expires it and     *)
(* loads it again at the next access).  Threads interleave between         *)
(* database operations.                                                    *)
(***************************************************************************)
\* the rows a worker adds between two commits: if inserted % 500 == 0
COMMIT_EVERY == 500

\* bounds: the uploads made and the analyze requests sent in a run
MaxUploads == 2
MaxRequests == 2

\* what an upload holds: an empty file, or a file that parses to so many rows
Contents ==
  {[empty |-> TRUE, rows |-> 0], [empty |-> FALSE, rows |-> 0],
   [empty |-> FALSE, rows |-> 1], [empty |-> FALSE, rows |-> COMMIT_EVERY],
   [empty |-> FALSE, rows |-> 2 * COMMIT_EVERY + 1]}

\* how many findings detect_anomalies may return
Found == 0..2

\* fault model: a row created without its pipeline state, as the nullable
\* columns allow
NewUploadUnset(content) ==
  [status |-> NoneV, progress |-> NoneV, content |-> content,
   events |-> 0, anomalies |-> 0, summarized |-> FALSE]

\* Upload(filename=..., status="uploaded", progress=0, raw_content=content)
NewUpload(content) ==
  [status |-> StrV("uploaded"), progress |-> IntV(0), content |-> content,
   events |-> 0, anomalies |-> 0, summarized |-> FALSE]

\* a session that has not loaded the row, or has committed since
Expired == [loaded |-> FALSE]
Loaded(row) == [loaded |-> TRUE, status |-> row.status, progress |-> row.progress]

\* the row as a session sees it: what it has loaded, else what is stored
Seen(row, view) == IF view.loaded THEN view ELSE Loaded(row)

\* max(0, min(100, int(progress)))
Clamp(n) == Max(0, Min(100, n))

\* set_state(dbsess, upload_id, status=..., progress=...) on a stored row:
\* a column is written when its argument is not None and differs from what
\* the session sees; the session commits when a column was written
set_state(row, view, status, progress) ==
  LET was == Seen(row, view)
      newStatus == status # NoneV /\ was.status # status
      newProgress == progress # NoneV /\ was.progress # IntV(Clamp(progress.n))
      changed == newStatus \/ newProgress
  IN [row |-> [row EXCEPT !.status = IF newStatus THEN status ELSE @,
                          !.progress = IF newProgress THEN IntV(Clamp(progress.n)) ELSE @],
      changed |-> changed,
      view |-> IF changed THEN Expired ELSE was]

\* prog = 15 + int(55 * (inserted / total)); min(70, prog)
InsertProgress(inserted, total) == Min(70, 15 + (55 * inserted) \div total)

IsStored(id) == id \in 1..Len(uploads)

\* POST /api/upload: a row for the file
Upload(content) ==
  /\ Len(uploads) < MaxUploads
  /\ uploads' = Append(uploads, NewUpload(content))
  /\ UNCHANGED <<requests, workers, engine>>

\* POST /api/analyze/<id> arrives: up = db.get(Upload, upload_id); a
\* missing upload is answered 404
AnalyzeGet(id) ==
  /\ Len(requests) < MaxRequests
  /\ requests' = Append(requests,
                        IF IsStored(id)
                        THEN [pc |-> "check", upload_id |-> id, up |-> Loaded(uploads[id])]
                        ELSE [pc |-> "answered", upload_id |-> id, up |-> Expired])
  /\ UNCHANGED <<uploads, workers, engine>>

\* the statuses on which analyze answers without starting a worker
Underway == {StrV("processing"), StrV("summarizing"), StrV("done")}

\* up.status = "processing"; up.progress = 5; db.add(up); db.commit()
AnalyzeWrite(row) == [row EXCEPT !.status = StrV("processing"), !.progress = IntV(5)]

\* analyze, after the row is loaded: the answer for an upload under way,
\* or the write of processing / 5
AnalyzeCheck(r) ==
  /\ r \in 1..Len(requests)
  /\ requests[r].pc = "check"
  /\ IF requests[r].up.status \in Underway
     THEN /\ requests' = [requests EXCEPT ![r].pc = "answered"]
          /\ UNCHANGED uploads
     ELSE /\ uploads' = [uploads EXCEPT ![requests[r].upload_id] = AnalyzeWrite(@)]
          /\ requests' = [requests EXCEPT ![r].pc = "start"]
  /\ UNCHANGED <<workers, engine>>

\* a worker at the head of _process_analysis, with a session of its own
NewWorker(id) ==
  [pc |-> "load", upload_id |-> id, view |-> Expired, total |-> 0, inserted |-> 0,
   pending |-> 0]

\* threading.Thread(target=_process_analysis, args=(upload_id,)).start()
\* and the answer 202
AnalyzeStart(r) ==
  /\ r \in 1..Len(requests)
  /\ requests[r].pc = "start"
  /\ workers' = Append(workers, NewWorker(requests[r].upload_id))
  /\ requests' = [requests EXCEPT ![r].pc = "answered"]
  /\ UNCHANGED <<uploads, engine>>

\* a step of worker w that leaves it at label next, with set_state(status,
\* progress) as its last database operation; flush is the pending
\* LogEvent rows, written with the commit if there is one
WorkerSets(w, next, status, progress, fields) ==
  LET id == workers[w].upload_id
      st == set_state(uploads[id], workers[w].view, status, progress)
      flush == IF st.changed THEN workers[w].pending ELSE 0
  IN /\ uploads' = [uploads EXCEPT ![id] = [st.row EXCEPT !.events = @ + flush]]
     /\ workers' = [workers EXCEPT ![w] = [fields EXCEPT !.pc = next, !.view = st.view,
                                                        !.pending = @ - flush]]
     /\ UNCHANGED <<requests, engine>>

AtLabel(w, label) == w \in 1..Len(workers) /\ workers[w].pc = label

\* fault model: the exception ends the worker and nothing is written
WorkerDies(w) ==
  /\ workers' = [workers EXCEPT ![w].pc = "closed"]
  /\ UNCHANGED <<uploads, requests, engine>>

\* except Exception: set_state(dbt, upload_id, status="failed",
\* progress=100); finally: dbt.close()
WorkerFails(w) == WorkerSets(w, "closed", StrV("failed"), IntV(100), workers[w])

\* u = dbt.get(Upload, upload_id); if not u or not u.raw_content: failed
\* and return; else set_state(processing, 5)
WorkerLoad(w) ==
  /\ AtLabel(w, "load")
  /\ LET row == uploads[workers[w].upload_id]
         loaded == [workers[w] EXCEPT !.view = Loaded(row)]
     IN IF row.content.empty
        THEN WorkerSets(w, "closed", StrV("failed"), IntV(100), workers[w])
        ELSE /\ workers' = [workers EXCEPT ![w] = [loaded EXCEPT !.pc = "begin"]]
             /\ UNCHANGED <<uploads, requests, engine>>

\* set_state(dbt, upload_id, status="processing", progress=5), against
\* the row as loaded by the step before
WorkerBegin(w) ==
  /\ AtLabel(w, "begin")
  /\ WorkerSets(w, "parse", StrV("processing"), IntV(5), workers[w])

\* rows, fmt = smart_parse(...); set_state(progress=15); or an exception
WorkerParse(w) ==
  /\ AtLabel(w, "parse")
  /\ \/ WorkerSets(w, "insert", NoneV, IntV(15),
                   [workers[w] EXCEPT !.total =
                      uploads[workers[w].upload_id].content.rows])
     \/ WorkerFails(w)

\* the loop over rows up to the next commit: dbt.add(ev) for up to 500
\* rows, then dbt.commit() and set_state(progress=min(70, prog)); after
\* the last row dbt.commit() and set_state(progress=75); or an exception
\* with the rows added so far pending
WorkerInsert(w) ==
  /\ AtLabel(w, "insert")
  /\ LET me == workers[w]
         id == me.upload_id
         left == me.total - me.inserted
         n == Min(left, COMMIT_EVERY - (me.inserted % COMMIT_EVERY))
         added == [me EXCEPT !.inserted = @ + n]
         stored == [uploads EXCEPT ![id].events = @ + n + me.pending]
     IN \/ /\ left > 0 /\ (me.inserted + n) % COMMIT_EVERY = 0
           /\ LET st == set_state(stored[id], Expired, NoneV,
                                  IntV(InsertProgress(me.inserted + n, Max(1, me.total))))
              IN /\ uploads' = [stored EXCEPT ![id] = st.row]
                 /\ workers' = [workers EXCEPT ![w] = [added EXCEPT !.view = Expired,
                                                                    !.pending = 0]]
           /\ UNCHANGED <<requests, engine>>
        \/ /\ left > 0 /\ (me.inserted + n) % COMMIT_EVERY # 0
           /\ workers' = [workers EXCEPT ![w] = [added EXCEPT !.pending = @ + n]]
           /\ UNCHANGED <<uploads, requests, engine>>
        \/ /\ left = 0
           /\ LET st == set_state(stored[id], Expired, NoneV, IntV(75))
              IN /\ uploads' = [stored EXCEPT ![id] = st.row]
                 /\ workers' = [workers EXCEPT ![w] = [me EXCEPT !.pc = "detect",
                                                                 !.view = Expired,
                                                                 !.pending = 0]]
           /\ UNCHANGED <<requests, engine>>
        \/ WorkerFails(w)

\* found = detect_anomalies(ev_dicts); an Anomaly row for every finding;
\* dbt.commit(); or an exception
WorkerDetect(w) ==
  /\ AtLabel(w, "detect")
  /\ \/ \E n \in Found :
          /\ uploads' = [uploads EXCEPT ![workers[w].upload_id].anomalies = @ + n]
          /\ workers' = [workers EXCEPT ![w].pc = "mark", ![w].view = Expired]
          /\ UNCHANGED <<requests, engine>>
     \/ WorkerFails(w)

\* grouped = _group_anomalies(...), the timeline, and
\* set_state(status="summarizing", progress=88); or an exception
WorkerMark(w) ==
  /\ AtLabel(w, "mark")
  /\ \/ WorkerSets(w, "summarize", StrV("summarizing"), IntV(88), workers[w])
     \/ WorkerFails(w)

\* summarize_log(...) with its exceptions caught, the summary cached with
\* its exceptions caught, set_state(status="done", progress=100) and
\* dbt.close()
WorkerFinish(w) ==
  /\ AtLabel(w, "summarize")
  /\ \E cached \in BOOLEAN :
       LET id == workers[w].upload_id
           st == set_state(uploads[id], IF cached THEN Expired ELSE workers[w].view,
                           StrV("done"), IntV(100))
       IN /\ uploads' = [uploads EXCEPT ![id] = [st.row EXCEPT !.summarized = @ \/ cached]]
          /\ workers' = [workers EXCEPT ![w].pc = "closed", ![w].view = st.view]
          /\ UNCHANGED <<requests, engine>>

NextService ==
  \/ \E content \in Contents : Upload(content)
  \/ \E id \in 1..(MaxUploads + 1) : AnalyzeGet(id)
  \/ \E r \in 1..MaxRequests : AnalyzeCheck(r)
  \/ \E r \in 1..MaxRequests : AnalyzeStart(r)
  \/ \E w \in 1..MaxRequests :
       \/ WorkerLoad(w)
       \/ WorkerBegin(w)
       \/ WorkerParse(w)
       \/ WorkerInsert(w)
       \/ WorkerDetect(w)
       \/ WorkerMark(w)
       \/ WorkerFinish(w)

\* the steps of the thread of worker w
WorkerStep(w) ==
  \/ WorkerLoad(w)
  \/ WorkerBegin(w)
  \/ WorkerParse(w)
  \/ WorkerInsert(w)
  \/ WorkerDetect(w)
  \/ WorkerMark(w)
  \/ WorkerFinish(w)

\* the service as it starts: no call of detect_anomalies in the model, no
\* rows, no requests, no workers
NoCalls == {[i \in Invocations |-> NoCall]}

SpecService == InitOn(NoCalls) /\ [][NextService]_vars

\* a started thread is scheduled until it returns; requests may stop
\* arriving, and a request may be held up, at any point
SpecServiceFair ==
  /\ InitOn(NoCalls)
  /\ [][NextService]_vars
  /\ \A w \in 1..MaxRequests : WF_vars(WorkerStep(w))

(***************************************************************************)
(* Input batches.  A raw event is what the caller hands to                 *)
(* detect_anomalies: the keys of its docstring, every one possibly None.   *)
(***************************************************************************)
RawEvent(ts, status, user, src_ip, url, user_agent, raw, event_id) ==
  [ts |-> ts, status |-> status, src_ip |-> src_ip, user |-> user, url |-> url,
   action |-> NoneV, user_agent |-> user_agent, raw |-> raw,
   event_id |-> event_id, id |-> NoneV]

\* 2024-01-01 03:00:00, in seconds
T0 == DaysFromCivil(2024, 1, 1) * 86400 + 3 * 3600

\* the instant t as the caller may write it: an ISO string with Z, an ISO
\* string with the offset +02:00, the "YYYY-MM-DD HH:MM:SS" form, or a
\* datetime object
Stamp(form, t) ==
  LET iso == isoformat(DtV(t, 0, FALSE))
  IN CASE form = "z" -> StrV(iso \o "Z")
       [] form = "offset" -> StrV(isoformat(DtV(t + 7200, 7200, TRUE)))
       [] form = "naive" -> StrV(SubSeq(iso, 1, 10) \o " " \o SubSeq(iso, 12, 19))
       [] form = "dt" -> DtV(t, 0, FALSE)

Reverse(seq) == [k \in 1..Len(seq) |-> seq[Len(seq) + 1 - k]]

\* n times, gap seconds apart
Uniform(n, gap) == [k \in 1..n |-> (k - 1) * gap]

\* the event ids of a run of n events: all distinct, none, or a run whose
\* second burst carries the ids of the first in the opposite order
Ids(mode, n) ==
  [k \in 1..n |->
     CASE mode = "all" -> IntV(k)
       [] mode = "none" -> NoneV
       [] mode = "mirror" -> IF k \in {1, BRUTE_FORCE_MIN_FAILS + 2} THEN IntV(1)
                             ELSE IF k \in {2, BRUTE_FORCE_MIN_FAILS + 1} THEN IntV(2)
                             ELSE NoneV]

\* the source addresses of a run: one address, or two in turn
Ips(mode, n) ==
  [k \in 1..n |-> IF mode = "alt" /\ k % 2 = 0 THEN StrV("10.0.0.2") ELSE StrV("10.0.0.1")]

LoginUrl == StrV("https://auth.warptrace.corp/login")

\* failed logins of one user at the given times (seconds after T0)
Failures(times, form, user, ips, ids) ==
  [k \in 1..Len(times) |->
     RawEvent(Stamp(form, T0 + times[k]), IntV(401), user, ips[k], LoginUrl,
              NoneV, NoneV, ids[k])]

\* bounds of the brute-force batches
MaxBurst == 20
MaxGap == 14

\* the largest gap at which BRUTE_FORCE_MIN_FAILS evenly spaced failures fit the window
TightGap == BRUTE_FORCE_WINDOW_SEC \div (BRUTE_FORCE_MIN_FAILS - 1)

RunShapes ==
  {[form |-> "z", user |-> StrV("alice"), ips |-> "same", ids |-> "all"],
   [form |-> "naive", user |-> NoneV, ips |-> "same", ids |-> "none"],
   [form |-> "dt", user |-> StrV("alice"), ips |-> "alt", ids |-> "mirror"]}

Run(n, gap, shape) ==
  Failures(Uniform(n, gap), shape.form, shape.user, Ips(shape.ips, n), Ids(shape.ids, n))

\* evenly spaced runs of failures
UniformRuns ==
  {Run(n, gap, shape) : n \in (BRUTE_FORCE_MIN_FAILS - 1)..MaxBurst,
                        gap \in {0, 1} \cup (TightGap..MaxGap),
                        shape \in RunShapes}

\* a run whose last failure lies just inside, on, or just outside the window
\* that the first one opens
EdgeRuns ==
  {Failures(Uniform(BRUTE_FORCE_MIN_FAILS - 1, 1) \o <<d>>, form, StrV("alice"),
            Ips("same", BRUTE_FORCE_MIN_FAILS), Ids("all", BRUTE_FORCE_MIN_FAILS)) :
     d \in (BRUTE_FORCE_WINDOW_SEC - 1)..(BRUTE_FORCE_WINDOW_SEC + 1),
     form \in {"z", "naive"}}

\* runs that arrive latest first
ReversedRuns ==
  {Reverse(Run(n, gap, CHOOSE s \in RunShapes : s.ids = "all")) :
     n \in {BRUTE_FORCE_MIN_FAILS, BRUTE_FORCE_MIN_FAILS + 2}, gap \in {1, TightGap}}

\* other traffic around a run: failures of another user, a success and a
\* failure of the same user with a string status, a failure without a
\* readable timestamp, and two blocked logins that differ in nothing
OtherTraffic ==
  {<<RawEvent(Stamp("z", T0 + 5), IntV(401), StrV("bob"), StrV("10.0.0.1"), LoginUrl,
              NoneV, NoneV, IntV(50)),
     RawEvent(Stamp("offset", T0 + 6), IntV(401), StrV("bob"), StrV("10.0.0.1"), LoginUrl,
              NoneV, NoneV, IntV(51))>>,
   <<RawEvent(Stamp("z", T0 + 7), IntV(200), StrV("alice"), StrV("10.0.0.1"), LoginUrl,
              NoneV, NoneV, IntV(52))>>,
   <<RawEvent(Stamp("z", T0 + 7), StrV(" 401 "), StrV("alice"), StrV("10.0.0.1"), LoginUrl,
              NoneV, NoneV, IntV(53))>>,
   <<RawEvent(StrV("yesterday"), IntV(401), StrV("alice"), StrV("10.0.0.1"), LoginUrl,
              NoneV, NoneV, IntV(54))>>,
   <<RawEvent(Stamp("z", T0 + 8), IntV(403), StrV("alice"), StrV("10.0.0.1"), LoginUrl,
              NoneV, StrV("Blocked by brute-force protection"), NoneV),
     RawEvent(Stamp("z", T0 + 8), IntV(403), StrV("alice"), StrV("10.0.0.1"), LoginUrl,
              NoneV, StrV("Blocked by brute-force protection"), NoneV)>>}

MixedRuns ==
  {Run(n, gap, CHOOSE s \in RunShapes : s.ids = "all") \o other :
     n \in {BRUTE_FORCE_MIN_FAILS - 1, BRUTE_FORCE_MIN_FAILS, 2 * BRUTE_FORCE_MIN_FAILS},
     gap \in {1, TightGap}, other \in OtherTraffic}

BruteBatches == UniformRuns \cup EdgeRuns \cup ReversedRuns \cup MixedRuns

InitBrute == InitOn(Single(BruteBatches))
SpecBrute == InitBrute /\ [][Next]_vars

(***************************************************************************)
(* Batches of token-exchange failures                                      *)
(***************************************************************************)
\* bounds of the token batches
MaxTokenBurst == 16
MaxTokenGap == 22

\* the largest gap at which 15 evenly spaced failures fit 300 seconds
TightTokenGap == 300 \div 14

TokenUrls(mode, n) ==
  [k \in 1..n |->
     CASE mode = "one" -> StrV("https://auth.warptrace.corp/oauth/token")
       [] mode = "case" -> IF k % 2 = 0
                           THEN StrV("https://AUTH.warptrace.corp/oauth/token?grant=code")
                           ELSE StrV("https://auth.warptrace.corp/oauth/token")
       [] mode = "relative" -> StrV("/oauth/token")]

TokenShapes ==
  {[form |-> "z", urls |-> "one", ids |-> "all"],
   [form |-> "naive", urls |-> "case", ids |-> "none"],
   [form |-> "dt", urls |-> "relative", ids |-> "all"]}

\* failed token exchanges at the given times (seconds after T0)
TokenFailures(times, form, urls, ids) ==
  [k \in 1..Len(times) |->
     RawEvent(Stamp(form, T0 + times[k]), IntV(401), StrV("svc"), StrV("10.0.0.9"),
              urls[k], NoneV, NoneV, ids[k])]

TokenRun(n, gap, shape) ==
  TokenFailures(Uniform(n, gap), shape.form, TokenUrls(shape.urls, n), Ids(shape.ids, n))

UniformTokenRuns ==
  {TokenRun(n, gap, shape) : n \in 14..MaxTokenBurst,
                             gap \in {0, 1} \cup (TightTokenGap..MaxTokenGap),
                             shape \in TokenShapes}
  \cup {TokenRun(30, 1, shape) : shape \in TokenShapes}

\* a run whose last failure lies just inside, on, or just outside the
\* 300 seconds that the first one opens
EdgeTokenRuns ==
  {TokenFailures(Uniform(14, 1) \o <<d>>, form, TokenUrls("one", 15), Ids("all", 15)) :
     d \in 299..301, form \in {"z", "naive"}}

\* other traffic around a run: a failed exchange at another host, a
\* successful exchange, a failure elsewhere on the host, and a failed
\* exchange without a readable timestamp
OtherTokenTraffic ==
  {<<RawEvent(Stamp("z", T0 + 5), IntV(401), StrV("svc"), StrV("10.0.0.9"),
              StrV("https://login.other.io/oauth/token"), NoneV, NoneV, IntV(50))>>,
   <<RawEvent(Stamp("z", T0 + 6), IntV(200), StrV("svc"), StrV("10.0.0.9"),
              StrV("https://auth.warptrace.corp/oauth/token"), NoneV, NoneV, IntV(51))>>,
   <<RawEvent(Stamp("offset", T0 + 7), IntV(401), StrV("svc"), StrV("10.0.0.9"),
              StrV("https://auth.warptrace.corp/authorize"), NoneV, NoneV, IntV(52))>>,
   <<RawEvent(NoneV, IntV(401), StrV("svc"), StrV("10.0.0.9"),
              StrV("https://auth.warptrace.corp/oauth/token"), NoneV, NoneV, IntV(53))>>}

MixedTokenRuns ==
  {TokenRun(n, gap, CHOOSE s \in TokenShapes : s.urls = "one") \o other :
     n \in {14, 15}, gap \in {1, TightTokenGap}, other \in OtherTokenTraffic}

TokenBatches == UniformTokenRuns \cup EdgeTokenRuns \cup MixedTokenRuns

InitToken == InitOn(Single(TokenBatches))
SpecToken == InitToken /\ [][Next]_vars

(***************************************************************************)
(* Batches of web traffic with errors                                      *)
(***************************************************************************)
\* bound of the error-rate batches: the most events of a batch
MaxBucket == 21

\* the statuses of a run of n events of which the first e are errors; the
\* errors and the others run through the edges of [400, 600)
Statuses(n, e) ==
  [k \in 1..n |->
     IF k <= e
     THEN (CASE k % 4 = 0 -> IntV(400) [] k % 4 = 1 -> IntV(500)
             [] k % 4 = 2 -> IntV(599) [] k % 4 = 3 -> StrV("404"))
     ELSE (CASE k % 4 = 0 -> IntV(200) [] k % 4 = 1 -> IntV(399)
             [] k % 4 = 2 -> IntV(600) [] k % 4 = 3 -> NoneV)]

\* who asks and where: one user at one host, two users in turn at one
\* host, one user at two hosts in turn
Users(mode, n) ==
  [k \in 1..n |-> IF mode = "users" /\ k % 2 = 0 THEN StrV("bob") ELSE StrV("alice")]

ShopUrls(mode, n) ==
  [k \in 1..n |-> IF mode = "hosts" /\ k % 2 = 0
                  THEN StrV("https://api.example.com/v1/items")
                  ELSE StrV("https://shop.example.com/cart")]

\* the shapes of a run: the form of its timestamps, who and where, the
\* second of the 10-minute bucket at which it starts, and the gap
TrafficShapes ==
  {[form |-> "z", who |-> "one", start |-> 0, gap |-> 20],
   [form |-> "naive", who |-> "users", start |-> 0, gap |-> 20],
   [form |-> "dt", who |-> "hosts", start |-> 7, gap |-> 0],
   [form |-> "offset", who |-> "one", start |-> 400, gap |-> 40]}

Traffic(n, e, shape) ==
  [k \in 1..n |->
     RawEvent(Stamp(shape.form, T0 + shape.start + (k - 1) * shape.gap),
              Statuses(n, e)[k], Users(shape.who, n)[k], StrV("10.0.0.1"),
              ShopUrls(shape.who, n)[k], StrV("Mozilla/5.0"), NoneV,
              IF k % 3 = 0 THEN NoneV ELSE IntV(k))]

ErrBatches ==
  {Traffic(n, e, shape) : n \in (ERROR_RATE_MIN_EVENTS - 1)..MaxBucket,
                          e \in {0} \cup (11..17) \cup {ERROR_RATE_MIN_EVENTS - 1},
                          shape \in TrafficShapes}
  \cup {Traffic(n, n, shape) : n \in (ERROR_RATE_MIN_EVENTS - 1)..MaxBucket,
                               shape \in TrafficShapes}

InitErr == InitOn(Single(ErrBatches))
SpecErr == InitErr /\ [][Next]_vars

(***************************************************************************)
(* Small batches: a few requests with varying user agents, and single      *)
(* logins at varying hours                                                 *)
(***************************************************************************)
\* bound of the small batches: the most events of a batch
MaxEvents == 3

UserAgents ==
  {NoneV, StrV("  "), StrV("curl/8.0"), StrV(" curl/8.0 "), StrV("Mozilla/5.0")}

\* the k-th request of a batch, with the user agent ua
Request(k, ua) ==
  RawEvent(Stamp("z", T0 + k), IntV(200), StrV("alice"), StrV("10.0.0.1"),
           StrV("https://shop.example.com/cart"), ua, NoneV, IntV(k))

UaBatches ==
  UNION {{[k \in 1..n |-> Request(k, uas[k])] : uas \in [1..n -> UserAgents]} :
           n \in 0..MaxEvents}

\* the last second of hour h of 2024-01-01
EndOfHour(h) == DaysFromCivil(2024, 1, 1) * 86400 + h * 3600 + 3599

\* one event at the end of an hour; an "offset" stamp shows the hour two
\* hours later
LoginBatches ==
  {<<RawEvent(Stamp(form, EndOfHour(h)), status, StrV("alice"), StrV("10.0.0.1"),
              LoginUrl, NoneV, NoneV, eid)>> :
     form \in {"z", "naive", "dt", "offset"},
     h \in {0, 3, 4, 5, 6, 21},
     status \in {IntV(200), StrV("200"), IntV(401), NoneV},
     eid \in {NoneV, IntV(0), IntV(7), StrV(""), StrV("e1")}}

SmallBatches == UaBatches \cup LoginBatches

Init == InitOn(Single(SmallBatches))
Spec == Init /\ [][Next]_vars

(***************************************************************************)
(* Several uploads analysed at once: two calls on one batch and a third    *)
(* call on any batch, interleaved in every way                             *)
(***************************************************************************)
Blocked(k) ==
  RawEvent(Stamp("z", T0 + 8), IntV(403), StrV("alice"), StrV("10.0.0.1"), LoginUrl,
           StrV("curl/8.0"), StrV("Blocked by brute-force protection"), NoneV)

SharedBatches ==
  {<<>>,
   <<Request(1, StrV("curl/8.0"))>>,
   <<Blocked(1), Blocked(2)>>}

Concurrent(batches) ==
  {[i \in Invocations |-> IF i = "c" THEN Call(y) ELSE Call(x)] :
     x \in batches, y \in batches}

InitConcurrent == InitOn(Concurrent(SharedBatches))
SpecConcurrent == InitConcurrent /\ [][Next]_vars

(***************************************************************************)
(* Batches outside the input contract: timestamps of mixed kinds, fields   *)
(* of unexpected types                                                     *)
(***************************************************************************)
\* a timestamp of every kind the normalizer reads, and two it does not
AnyStamp(k) ==
  {Stamp(form, T0 + k) : form \in {"z", "offset", "naive", "dt"}}
  \cup {NoneV, StrV("yesterday"), IntV(1704078000 + k)}

MixedStampBatches ==
  {<<RawEvent(s1, IntV(200), StrV("alice"), StrV("10.0.0.1"), LoginUrl,
              StrV("curl/8.0"), NoneV, IntV(1)),
     RawEvent(s2, IntV(401), StrV("alice"), StrV("10.0.0.1"), LoginUrl,
              StrV("curl/8.0"), NoneV, IntV(2))>> :
     s1 \in AnyStamp(0), s2 \in AnyStamp(5)}

\* a value of every type a decoded JSON document can hold
AnyValue == {NoneV, StrV(""), StrV("x"), IntV(0), IntV(7), FltV(150), ListV(<<>>)}

Plain ==
  RawEvent(Stamp("z", T0), IntV(401), StrV("alice"), StrV("10.0.0.1"), LoginUrl,
           StrV("curl/8.0"), StrV("login failed"), IntV(1))

\* one event, one field of which holds any value
OddFieldBatches ==
  {<<[Plain EXCEPT ![field] = v]>> :
     field \in {"status", "src_ip", "user", "url", "action", "user_agent", "raw",
                "event_id"},
     v \in AnyValue}

AnyBatches == MixedStampBatches \cup OddFieldBatches

InitAny == InitOn(Single(AnyBatches))
SpecAny == InitAny /\ [][Next]_vars

(***************************************************************************)
(* Batches of logins whose raw text may name a risk or a TOR source        *)
(***************************************************************************)
\* bound of the risk batches: the most events of a batch
MaxRisk == 2

\* raw texts: a risk inside, below and far above [0, 1], a token that is no
\* number, no token at all, the floats that are no numbers, a TOR source
\* with and without a risk, and two texts that name neither
RiskTexts ==
  {"risk=0.5 country=xx", "risk=-7;", "score risk=99999", "geo risk=high",
   "login ok risk=", "risk=NaN", "risk=-inf", "tor_exit=true risk=1.0",
   "login via TOR exit node", "login ok"}

\* the k-th login of a batch, with the raw text raw
RiskLogin(k, raw, eid) ==
  RawEvent(Stamp("z", T0 + k), IntV(200), StrV("alice"), StrV("10.0.0.1"), LoginUrl,
           NoneV, StrV(raw), eid)

RiskBatches ==
  UNION {{[k \in 1..n |-> RiskLogin(k, raws[k], IF ids = "all" THEN IntV(k) ELSE NoneV)] :
            raws \in [1..n -> RiskTexts], ids \in {"all", "none"}} :
           n \in 0..MaxRisk}

InitRisk == InitOn(Single(RiskBatches))
SpecRisk == InitRisk /\ [][Next]_vars

(***************************************************************************)
(* Batches of logins that a protection may have blocked                    *)
(***************************************************************************)
\* bound of the blocked batches: the most events of a batch
MaxBlocked == 2

\* a status and a raw text: blocked in three wordings, refused without a
\* word of blocking, and a word of blocking on a login that went through
BlockShapes ==
  {[status |-> IntV(403), raw |-> StrV("Blocked by brute-force protection")],
   [status |-> StrV("403"), raw |-> StrV("request BLOCKED")],
   [status |-> IntV(403), raw |-> StrV("brute-force detected")],
   [status |-> IntV(403), raw |-> StrV("forbidden")],
   [status |-> IntV(200), raw |-> StrV("blocked")]}

\* the identifiers of a batch: one per event, none, or one for all events
BlockIds(mode, k) ==
  CASE mode = "all" -> IntV(k) [] mode = "none" -> NoneV [] mode = "same" -> IntV(1)

BlockedBatches ==
  UNION {{[k \in 1..n |->
             RawEvent(Stamp("z", T0 + k), shapes[k].status, users[k], StrV("10.0.0.1"),
                      LoginUrl, NoneV, shapes[k].raw, BlockIds(ids, k))] :
            shapes \in [1..n -> BlockShapes],
            users \in [1..n -> {StrV("alice"), StrV("bob")}],
            ids \in {"all", "none", "same"}} :
           n \in 0..MaxBlocked}

InitBlocked == InitOn(Single(BlockedBatches))
SpecBlocked == InitBlocked /\ [][Next]_vars

(***************************************************************************)
(* Batches of password and MFA activity                                    *)
(***************************************************************************)
\* bound of the activity batches: the most events of a batch
MaxActivity == 2

\* when, who and from where: the k-th event of a batch of the given shape
ActivitySlot(shape, k) ==
  CASE shape = "one" ->
         [ts |-> Stamp("z", T0 + k), user |-> StrV("alice"), ip |-> StrV("10.0.0.1")]
    [] shape = "padded" ->
         [ts |-> Stamp("naive", T0 + 10 * k),
          user |-> IF k % 2 = 0 THEN StrV(" alice ") ELSE StrV("alice"),
          ip |-> StrV("10.0.0.1")]
    [] shape = "minutes" ->
         [ts |-> Stamp("z", T0 + 60 * k - 1), user |-> StrV("alice"),
          ip |-> StrV("10.0.0.1")]
    [] shape = "unknown" ->
         [ts |-> IF k % 2 = 0 THEN NoneV ELSE StrV("yesterday"),
          user |-> IF k = 1 THEN NoneV ELSE StrV("  "),
          ip |-> IF k = 1 THEN StrV("") ELSE NoneV]

\* raw texts that name a password reset, MFA activity, both, or neither
ActivityTexts ==
  {"Password-Reset requested", "MFA challenge sent", "pwd reset by one-time code",
   "login ok"}

ActivityBatches ==
  UNION {{[k \in 1..n |->
             RawEvent(ActivitySlot(shape, k).ts, IntV(200), ActivitySlot(shape, k).user,
                      ActivitySlot(shape, k).ip, LoginUrl, NoneV, StrV(raws[k]),
                      IF ids = "all" THEN IntV(k) ELSE NoneV)] :
            raws \in [1..n -> ActivityTexts],
            shape \in {"one", "padded", "minutes", "unknown"},
            ids \in {"all", "none"}} :
           n \in 0..MaxActivity}

InitActivity == InitOn(Single(ActivityBatches))
SpecActivity == InitActivity /\ [][Next]_vars

(***************************************************************************)
(* Crowded batches: more events in one bucket than a finding may list      *)
(***************************************************************************)
\* bound of the crowded batches: the most events of a batch
MaxCrowd == 51

\* what the events of a crowd are: server errors that name a password
\* reset, successful logins before dawn, or failed token exchanges
CrowdShapes ==
  {[status |-> IntV(500), url |-> StrV("https://shop.example.com/cart"),
    raw |-> StrV("password reset failed")],
   [status |-> IntV(200), url |-> LoginUrl, raw |-> StrV("mfa challenge passed")],
   [status |-> IntV(401), url |-> StrV("https://auth.warptrace.corp/oauth/token"),
    raw |-> NoneV]}

\* n events of one user within one minute; the first has a user agent of
\* its own; with ids "gaps" every fifth event has no identifier
Crowd(n, shape, ids) ==
  [k \in 1..n |->
     RawEvent(Stamp("z", T0 + k), shape.status, StrV("alice"), StrV("10.0.0.1"),
              shape.url, IF k = 1 THEN StrV("Mozilla/5.0") ELSE StrV("curl/8.0"),
              shape.raw, IF ids = "gaps" /\ k % 5 = 0 THEN NoneV ELSE IntV(k))]

CrowdBatches ==
  {Crowd(n, shape, ids) : n \in (MaxCrowd - 2)..MaxCrowd, shape \in CrowdShapes,
                          ids \in {"all", "gaps"}}

InitCrowd == InitOn(Single(CrowdBatches))
SpecCrowd == InitCrowd /\ [][Next]_vars

(***************************************************************************)
(* Tangled batches: the failed token exchanges of two users in turn, from  *)
(* two addresses, the identifiers of one user under "event_id" and those   *)
(* of the other under "id"                                                 *)
(***************************************************************************)
\* bound of the tangled batches: the most events of a batch
MaxTangle == 30

TokenUrl(h) == StrV("https://" \o h \o "/oauth/token")

\* the k-th event: alice when k is odd, bob when it is even
Tangled(k, gap, hosts) ==
  [RawEvent(Stamp("z", T0 + k * gap), IntV(401),
            IF k % 2 = 1 THEN StrV("alice") ELSE StrV("bob"),
            IF k % 8 \in {7, 0} THEN StrV("10.0.0.2") ELSE StrV("10.0.0.1"),
            IF hosts = "two" /\ k % 2 = 0 THEN TokenUrl("api.example.com")
            ELSE TokenUrl("auth.warptrace.corp"),
            IF k = 3 THEN StrV("curl/8.0") ELSE NoneV,
            IF k % 6 = 0 THEN StrV("mfa challenge failed") ELSE NoneV,
            IF k % 2 = 1 THEN IntV(k) ELSE NoneV)
   EXCEPT !.id = IF k % 2 = 1 THEN IntV(900 + k) ELSE IntV(100 + k)]

TangledBatches ==
  {[k \in 1..n |-> Tangled(k, gap, hosts)] :
     n \in (MaxTangle - 10)..MaxTangle, gap \in {1, 5, 13}, hosts \in {"one", "two"}}

InitTangled == InitOn(Single(TangledBatches))
SpecTangled == InitTangled /\ [][Next]_vars

(***************************************************************************)
(* Batches with an event that has no readable timestamp                    *)
(***************************************************************************)
\* bound of these batches: the most events of a batch
MaxUnstamped == 21

\* timestamps that _as_dt reads as None
Unreadable == {NoneV, StrV(""), StrV("yesterday")}

\* what the events of such a batch are: failed token exchanges, refused
\* requests, or successful logins before dawn
UnstampedShapes ==
  {[status |-> IntV(401), url |-> TokenUrl("auth.warptrace.corp")],
   [status |-> IntV(403), url |-> StrV("https://shop.example.com/cart")],
   [status |-> IntV(200), url |-> LoginUrl]}

\* n events of one user a second apart, all alike but for the one at
\* position odd: it has the timestamp ts, a user agent of its own, and a
\* raw text that names a block, a password reset and a risk
Unstamped(n, shape, odd, ts) ==
  [k \in 1..n |->
     RawEvent(IF k = odd THEN ts ELSE Stamp("z", T0 + k), shape.status,
              StrV("alice"), StrV("10.0.0.1"), shape.url,
              IF k = odd THEN StrV("odd/1.0") ELSE StrV("curl/8.0"),
              IF k = odd THEN StrV("Blocked: password reset, risk=0.3") ELSE NoneV,
              IntV(k))]

UnstampedBatches ==
  UNION {{Unstamped(n, shape, odd, ts) :
            shape \in UnstampedShapes, odd \in {1, n},
            ts \in {NoneV, StrV("yesterday"), Stamp("z", T0)}} :
           n \in 1..MaxUnstamped}

InitUnstamped == InitOn(Single(UnstampedBatches))
SpecUnstamped == InitUnstamped /\ [][Next]_vars

(***************************************************************************)
(* Batches for the report: a password reset, then refused logins of        *)
(* different users from different addresses, then logins before dawn       *)
(***************************************************************************)
\* bounds of these batches: the most refused logins and the most logins
MaxRefused == 11
MaxLogins == 26

Reported(n, m) ==
  [k \in 1..(1 + n + m) |->
     IF k = 1
     THEN RawEvent(Stamp("z", T0), IntV(200), StrV("alice"), StrV("10.0.0.1"), LoginUrl,
                   NoneV, StrV("password reset done"), IntV(1))
     ELSE IF k <= 1 + n
     THEN RawEvent(Stamp("z", T0 + k), IntV(403), StrV("user" \o ToString(k)),
                   StrV("10.0.1." \o ToString(k)), LoginUrl, NoneV,
                   StrV("blocked by protection"), IntV(k))
     ELSE RawEvent(Stamp("z", T0 + k), IntV(200), StrV("alice"), StrV("10.0.0.1"),
                   LoginUrl, NoneV, NoneV, IntV(k))]

ReportedBatches ==
  {Reported(n, m) : n \in {0} \cup ((MaxRefused - 2)..MaxRefused),
                    m \in {0} \cup ((MaxLogins - 2)..MaxLogins)}

InitReported == InitOn(Single(ReportedBatches))
SpecReported == InitReported /\ [][Next]_vars

(***************************************************************************)
(* Sieges: one user's failed token exchanges, which fill the window of     *)
(* the user, the windows of the user's addresses and the window of the     *)
(* host at once, long enough for each window to trigger again              *)
(***************************************************************************)
MaxSiege == 31

\* seconds between two failures: dense, the widest and the first too wide
\* for ten in 120 s, the widest and the first too wide for fifteen in
\* 300 s, and gaps that divide 120 and 300
SiegeGaps == {1, TightGap, TightGap + 1, TightTokenGap, TightTokenGap + 1, 40, 60, 150}

\* the address of the k-th failure: always the same, or another one at
\* every tenth failure
SiegeIp(mode, k) ==
  IF mode = "turn" /\ k % BRUTE_FORCE_MIN_FAILS = 0 THEN StrV("10.0.0.2") ELSE StrV("10.0.0.1")

\* n failures gap seconds apart, the k-th with identifier k or with none
Siege(n, gap, ips, ids) ==
  [k \in 1..n |->
     RawEvent(Stamp("z", T0 + k * gap), IntV(401), StrV("alice"), SiegeIp(ips, k),
              TokenUrl("auth.warptrace.corp"), NoneV, NoneV,
              IF ids = "all" THEN IntV(k) ELSE NoneV)]

SiegeBatches ==
  {Siege(n, gap, ips, ids) : n \in (MaxSiege - 3)..MaxSiege, gap \in SiegeGaps,
                             ips \in {"same", "turn"}, ids \in {"all", "none"}}

InitSiege == InitOn(Single(SiegeBatches))
SpecSiege == InitSiege /\ [][Next]_vars

(***************************************************************************)
(* Batches by identifier: single events of every kind a pass reports on    *)
(* its own, with identifiers of every sort, and long batches as the        *)
(* analysis worker passes them, every event under its database id          *)
(***************************************************************************)
\* no identifier, the falsy ones, an integer and a string
Identifiers == {NoneV, IntV(0), StrV(""), IntV(7), StrV("e1")}

\* ev_dicts of _process_analysis: the events of an upload under
\* "event_id": e.id, the ids being those of consecutive rows
Stored(batch) ==
  [k \in 1..Len(batch) |-> [batch[k] EXCEPT !.event_id = IntV(k), !.id = NoneV]]

SingleBatches ==
  {<<RiskLogin(1, raw, eid)>> : raw \in RiskTexts, eid \in Identifiers}
  \cup {<<RawEvent(Stamp("z", T0), shape.status, StrV("alice"), StrV("10.0.0.1"),
                   LoginUrl, ua, shape.raw, eid)>> :
          shape \in BlockShapes, ua \in {NoneV, StrV("curl/8.0")}, eid \in Identifiers}
  \cup {<<RawEvent(Stamp("z", T0), IntV(200), StrV("alice"), StrV("10.0.0.1"),
                   LoginUrl, NoneV, StrV(text), eid)>> :
          text \in ActivityTexts, eid \in Identifiers}

StoredBatches ==
  {Stored(b) : b \in {c \in TangledBatches : Len(c) = MaxTangle}}
  \cup {Stored(Siege(MaxSiege, gap, "turn", "none")) : gap \in {1, TightGap}}
  \cup {Siege(MaxSiege, 1, "turn", "none")}

IdentifiedBatches == SingleBatches \cup StoredBatches

InitIdentified == InitOn(Single(IdentifiedBatches))
SpecIdentified == InitIdentified /\ [][Next]_vars

(***************************************************************************)
(* Shuffled batches: one call on a batch and, when it is over, a second    *)
(* call on the same events in another order of arrival                     *)
(***************************************************************************)
MaxShuffle == 26

\* the k-th event: a failed token exchange, or a login at every eighth
\* place; every fifth event has no timestamp
Shuffled(k, gap) ==
  RawEvent(IF k % 5 = 0 THEN NoneV
           ELSE IF k % 2 = 0 THEN Stamp("z", T0 + k * gap)
           ELSE Stamp("offset", T0 + k * gap),
           IF k % 8 = 0 THEN IntV(200) ELSE IntV(401),
           StrV("alice"), StrV("10.0.0.1"), TokenUrl("auth.warptrace.corp"),
           IF k = 2 THEN StrV("curl/8.0") ELSE NoneV, NoneV, IntV(k))

\* another order of arrival for the events of seq
Permuted(seq, how) ==
  LET n == Len(seq)
      half == (n + 1) \div 2
  IN CASE how = "reverse" -> Reverse(seq)
       [] how = "rotate" -> [k \in 1..n |-> seq[((k + half - 1) % n) + 1]]
       [] how = "riffle" -> [k \in 1..n |-> IF k <= half THEN seq[2 * k - 1]
                                            ELSE seq[2 * (k - half)]]
       [] how = "swap" -> [k \in 1..n |-> IF k % 2 = 1 /\ k < n THEN seq[k + 1]
                                          ELSE IF k % 2 = 0 THEN seq[k - 1]
                                          ELSE seq[k]]
       [] how = "weave" -> [k \in 1..n |-> IF k % 2 = 1 THEN seq[(k + 1) \div 2]
                                           ELSE seq[half + k \div 2]]
       [] how = "same" -> seq

\* gap 0 gives every event the same timestamp
ShuffledBatches ==
  {[k \in 1..n |-> Shuffled(k, gap)] : n \in (MaxShuffle - 1)..MaxShuffle, gap \in {0, 1, 7}}

Shuffles ==
  {[i \in Invocations |-> IF i = "a" THEN Call(x)
                          ELSE IF i = "b" THEN Call(Permuted(x, how))
                          ELSE NoCall] :
     x \in ShuffledBatches, how \in {"reverse", "rotate", "riffle", "swap"}}

\* the steps of one call
Step(i) ==
  \/ Normalize(i)
  \/ PwdMfaActivity(i)
  \/ BruteForce(i)
  \/ BlockedProtection(i)
  \/ HighRiskSource(i)
  \/ HighErrorRate(i)
  \/ RareUa(i)
  \/ OffHoursLogins(i)
  \/ TokenExchangeFailures(i)
  \/ DeDupe(i)
  \/ GroupAnomalies(i)

\* the calls one after the other
NextInTurn ==
  \/ Step("a")
  \/ pc["a"] \in {"grouped", "raised"} /\ Step("b")

InitShuffled == InitOn(Shuffles)
SpecShuffled == InitShuffled /\ [][NextInTurn]_vars

(***************************************************************************)
(* Busy batches, on which every pass has something to report: one call     *)
(* with the passes in the order of the source and, when it is over, a      *)
(* second call on the same batch with the passes in any order              *)
(***************************************************************************)
MaxBusy == 20

\* the raw text of the k-th event
BusyText(k) ==
  CASE k = 1 -> StrV("password reset requested")
    [] k = 2 -> StrV("mfa challenge failed")
    [] k = 3 -> StrV("login via tor exit node")
    [] k = 4 -> StrV("risk=0.5")
    [] k = 6 -> StrV("blocked by protection")
    [] OTHER -> NoneV

\* the k-th of n events: failed token exchanges of one user a second
\* apart, but a blocked login at the sixth place and a login that went
\* through at the last
Busy(k, n) ==
  RawEvent(Stamp("z", T0 + k),
           IF k = 6 THEN IntV(403) ELSE IF k = n THEN IntV(200) ELSE IntV(401),
           StrV("alice"), StrV("10.0.0.1"), TokenUrl("auth.warptrace.corp"),
           IF k = 5 THEN StrV("curl/8.0") ELSE NoneV, BusyText(k), IntV(k))

BusyBatches == {[k \in 1..n |-> Busy(k, n)] : n \in {1, 2, MaxBusy}}

TwoOrders ==
  {[i \in Invocations |-> IF i \in {"a", "b"} THEN Call(x) ELSE NoCall] : x \in BusyBatches}

\* the steps of the passes over n events in the order of the source: each
\* loop takes its n + 1 steps in a row
InSourceOrder(n) ==
  LET loop(p) == [k \in 1..(n + 1) |-> p]
  IN <<"pwd_mfa">> \o loop("brute_force")
     \o <<"blocked", "high_risk", "error_rate", "rare_ua", "off_hours">> \o loop("token")

\* the same steps rotated by r
Rotated(seq, r) == [k \in 1..Len(seq) |-> seq[((k + r - 1) % Len(seq)) + 1]]

\* orders of the steps: the order of the source begun at every sixth step,
\* each then reversed, riffled or woven, which brings any pass before any
\* other and lets the two loops take their steps in turn
Schedules(n) ==
  {Permuted(Rotated(InSourceOrder(n), r), how) :
     r \in {6 * m : m \in 0..((2 * n + 8) \div 6)},
     how \in {"same", "reverse", "riffle", "weave"}}

\* the second call starts when the first is over
NextAnyOrder ==
  \/ Step("a")
  \/ /\ pc["a"] \in {"grouped", "raised"}
     /\ \/ Normalize("b")
        \/ \E todo \in Schedules(Len(time_sorted["b"])) : Fork("b", todo)
        \/ \E p \in PassNames : AnyPass("b", p)
        \/ AnyBruteForce("b")
        \/ AnyTokenExchangeFailures("b")
        \/ Gather("b")
        \/ DeDupe("b")
        \/ GroupAnomalies("b")

InitAnyOrder == InitOn(TwoOrders)
SpecAnyOrder == InitAnyOrder /\ [][NextAnyOrder]_vars

(***************************************************************************)
(* Properties of the brute-force pass and of the de-duplication            *)
(***************************************************************************)
Returned(i) == pc[i] = "done"

\* the positions of the returned findings of a kind
OfKind(i, kind) == {k \in 1..Len(result[i]) : result[i][k].kind = kind}

\* the failed logins (status 401) of user key u in the batch
FailuresOf(i, u) ==
  {k \in 1..Len(norm[i]) : norm[i][k].status = IntV(401) /\ k_user(norm[i][k]) = u}

UserKeys(i) == {k_user(norm[i][k]) : k \in 1..Len(norm[i])}

\* u has exactly 10 failed logins, all timestamped, no two more than 120 s apart
TenWithinWindow(i, u) ==
  /\ Cardinality(FailuresOf(i, u)) = 10
  /\ \A k \in FailuresOf(i, u) : HasTs(norm[i][k])
  /\ \A j, k \in FailuresOf(i, u) :
       Instant(norm[i][j].ts) - Instant(norm[i][k].ts) <= 120

UserFindings(i, u) ==
  {k \in OfKind(i, "auth.bruteforce_user") : Get(result[i][k].meta, "user") = StrV(u)}

\* C1: when a user has exactly 10 events with status 401 in the batch, all
\* with parseable timestamps within a 120-second span, the returned list
\* holds exactly one auth.bruteforce_user finding for that user, and its
\* meta.failures is 10.
C1_TenFailuresOneFinding ==
  \A i \in Invocations :
    Returned(i) =>
      \A u \in UserKeys(i) :
        TenWithinWindow(i, u) =>
          /\ Cardinality(UserFindings(i, u)) = 1
          /\ \A k \in UserFindings(i, u) :
               Get(result[i][k].meta, "failures") = IntV(10)

\* C1's case: a returned call whose batch has such a user, the ten failures
\* spanning exactly 120 s and arriving among other traffic or not
C1_Witness ==
  \E i \in Invocations :
    /\ Returned(i)
    /\ \E u \in UserKeys(i) :
         /\ TenWithinWindow(i, u)
         /\ \E j, k \in FailuresOf(i, u) :
              Instant(norm[i][j].ts) - Instant(norm[i][k].ts) = 120
         /\ Cardinality(UserFindings(i, u)) = 1

\* the batch is n failed logins, 10 <= n <= 19, of one user from one
\* address, the k-th one k - 1 seconds after the first
SteadyFailures(i) ==
  LET nm == norm[i]
  IN /\ Len(nm) >= 10 /\ Len(nm) <= 19
     /\ \A k \in 1..Len(nm) :
          /\ nm[k].status = IntV(401)
          /\ k_pair(nm[k]) = k_pair(nm[1])
          /\ HasTs(nm[k]) /\ HasTs(nm[1])
          /\ Instant(nm[k].ts) = Instant(nm[1].ts) + (k - 1)

\* the identifiers of the first 10 events, in arrival order
FirstTenIds(i) == ListV(Map(Filter(SubSeq(norm[i], 1, 10), EvHasId), EvId))

\* C2: a batch of n status-401 events (10 <= n <= 19) of one user and one
\* source address, 1 second apart, returns exactly one auth.bruteforce_user
\* and exactly one auth.bruteforce_pair finding, each with meta.failures 10
\* and meta.event_ids the identifiers of the first 10 events in arrival
\* order; the other n - 10 events trigger nothing.
C2_FirstTenTriggerOnce ==
  \A i \in Invocations :
    (Returned(i) /\ SteadyFailures(i)) =>
      \A kind \in {"auth.bruteforce_user", "auth.bruteforce_pair"} :
        /\ Cardinality(OfKind(i, kind)) = 1
        /\ \A k \in OfKind(i, kind) :
             /\ Get(result[i][k].meta, "failures") = IntV(10)
             /\ Get(result[i][k].meta, "event_ids") = FirstTenIds(i)

\* C2's case: such a batch with more than 10 events that carry identifiers
C2_Witness ==
  \E i \in Invocations :
    /\ Returned(i) /\ SteadyFailures(i)
    /\ Len(norm[i]) > 10
    /\ FirstTenIds(i) = ListV([k \in 1..10 |-> IntV(k)])
    /\ Cardinality(OfKind(i, "auth.bruteforce_pair")) = 1

\* the positions of the candidates that are the first of their key
FirstOfKey(c) ==
  {k \in 1..Len(c) : \A j \in 1..(k - 1) : DedupKey(c[j]) # DedupKey(c[k])}

\* the n-th smallest element of a set of positions
NthOf(S, n) == CHOOSE k \in S : Cardinality({m \in S : m <= k}) = n

\* C8: the returned list is the candidate list restricted to the first
\* occurrence of every (kind, reason, canonicalized meta) key, in candidate
\* order: no two returned findings share a key, and the returned list is
\* never longer than the candidate list.
C8_FirstOccurrencesInOrder ==
  \A i \in Invocations :
    Returned(i) =>
      LET c == anomalies[i]
          r == result[i]
      IN /\ Len(r) = Cardinality(FirstOfKey(c))
         /\ Len(r) <= Len(c)
         /\ \A n \in 1..Len(r) : r[n] = c[NthOf(FirstOfKey(c), n)]
         /\ \A m, n \in 1..Len(r) : m # n => DedupKey(r[m]) # DedupKey(r[n])

\* C8's case: a returned call that dropped a repeated candidate and kept
\* several others, two of them of one kind and reason
C8_Witness ==
  \E i \in Invocations :
    /\ Returned(i)
    /\ Len(result[i]) < Len(anomalies[i])
    /\ \E m, n \in 1..Len(result[i]) :
         /\ m # n
         /\ result[i][m].kind = result[i][n].kind
         /\ result[i][m].reason = result[i][n].reason

\* the number of times x occurs in the list l
Occurrences(l, x) == Cardinality({k \in 1..Len(l) : l[k] = x})

IsList(v) == v.ty = "list"

\* two lists with the same elements, in whatever order
SameElements(v, w) ==
  /\ Len(v.l) = Len(w.l)
  /\ \A k \in 1..Len(v.l) : Occurrences(v.l, v.l[k]) = Occurrences(w.l, v.l[k])

\* two findings of one kind and reason whose metas differ, and differ only
\* in the order of the elements of a sequence value
ReorderedPair(x, y) ==
  /\ x.kind = y.kind /\ x.reason = y.reason
  /\ x.meta # y.meta
  /\ Len(x.meta.items) = Len(y.meta.items)
  /\ \A k \in 1..Len(x.meta.items) :
       /\ x.meta.items[k][1] = y.meta.items[k][1]
       /\ \/ x.meta.items[k][2] = y.meta.items[k][2]
          \/ /\ IsList(x.meta.items[k][2]) /\ IsList(y.meta.items[k][2])
             /\ SameElements(x.meta.items[k][2], y.meta.items[k][2])

IsReturned(i, x) == \E n \in 1..Len(result[i]) : result[i][n] = x

\* C9 as stated: of two candidates of one kind and reason whose metas
\* differ only in the order of the elements of a sequence value, the
\* second gets the key of the first and is not returned.
C9_SequenceOrderIgnored ==
  \A i \in Invocations :
    Returned(i) =>
      \A j, k \in 1..Len(anomalies[i]) :
        (j < k /\ ReorderedPair(anomalies[i][j], anomalies[i][k])) =>
          /\ DedupKey(anomalies[i][j]) = DedupKey(anomalies[i][k])
          /\ ~IsReturned(i, anomalies[i][k])

\* C9 as the code has it: the order of the elements of a sequence value is
\* part of the key, so two candidates of one kind and reason whose metas
\* differ only in that order get different keys and are both returned.
C9_SequenceOrderKept ==
  \A i \in Invocations :
    Returned(i) =>
      \A j, k \in 1..Len(anomalies[i]) :
        (j < k /\ ReorderedPair(anomalies[i][j], anomalies[i][k])) =>
          /\ DedupKey(anomalies[i][j]) # DedupKey(anomalies[i][k])
          /\ IsReturned(i, anomalies[i][j])
          /\ IsReturned(i, anomalies[i][k])

\* C9's case: a returned call with two such candidates
C9_Witness ==
  \E i \in Invocations :
    /\ Returned(i)
    /\ \E j, k \in 1..Len(anomalies[i]) :
         j < k /\ ReorderedPair(anomalies[i][j], anomalies[i][k])

(***************************************************************************)
(* Properties of the token-exchange pass                                   *)
(***************************************************************************)
\* the failed token exchanges of the batch: status 401, "/oauth/token" in the URL
TokenFailuresOf(i) ==
  {k \in 1..Len(norm[i]) :
     norm[i][k].status = IntV(401) /\ Contains(norm[i][k].url.s, "/oauth/token")}

\* the batch has exactly 15 failed token exchanges, all at one host, all
\* timestamped, no two more than 300 s apart
FifteenWithinWindow(i) ==
  /\ Cardinality(TokenFailuresOf(i)) = 15
  /\ \A j, k \in TokenFailuresOf(i) :
       /\ norm[i][j].host = norm[i][k].host
       /\ HasTs(norm[i][j]) /\ HasTs(norm[i][k])
       /\ Instant(norm[i][j].ts) - Instant(norm[i][k].ts) <= 300

\* C3: a batch with exactly 15 events of status 401 whose URL contains
\* /oauth/token, all at one host and within 300 seconds, returns exactly one
\* auth.token_fail_burst finding, and its meta.failures is 15.
C3_FifteenTokenFailuresOneFinding ==
  \A i \in Invocations :
    (Returned(i) /\ FifteenWithinWindow(i)) =>
      /\ Cardinality(OfKind(i, "auth.token_fail_burst")) = 1
      /\ \A k \in OfKind(i, "auth.token_fail_burst") :
           Get(result[i][k].meta, "failures") = IntV(15)

\* C3's case: such a batch whose failures span exactly 300 s, returned with
\* the finding
C3_Witness ==
  \E i \in Invocations :
    /\ Returned(i) /\ FifteenWithinWindow(i)
    /\ \E j, k \in TokenFailuresOf(i) :
         Instant(norm[i][j].ts) - Instant(norm[i][k].ts) = 300
    /\ Cardinality(OfKind(i, "auth.token_fail_burst")) = 1

(***************************************************************************)
(* Properties of the error-rate pass                                       *)
(***************************************************************************)
Stamped(i) == {k \in 1..Len(norm[i]) : HasTs(norm[i][k])}

\* the start of the 10-minute-aligned bucket of a timestamp
TenMinuteStart(ts) == Instant(ts) - (ts.wall % 600)

\* whom a bucket of a kind is about: the user, or the host
Who(kind, ev) == IF kind = "user" THEN PyStr(ev.user) ELSE ev.host.s

\* the timestamped events in the bucket of event k0, by user or by host
BucketOf(i, kind, k0) ==
  {k \in Stamped(i) :
     /\ Who(kind, norm[i][k]) = Who(kind, norm[i][k0])
     /\ TenMinuteStart(norm[i][k].ts) = TenMinuteStart(norm[i][k0].ts)}

\* the events of a set with a status in [400, 600)
ErrorsIn(i, S) ==
  {k \in S : norm[i][k].status.ty = "int"
             /\ norm[i][k].status.n >= 400 /\ norm[i][k].status.n < 600}

EndsWith(s, tail) ==
  Len(s) >= Len(tail) /\ SubSeq(s, Len(s) - Len(tail) + 1, Len(s)) = tail

\* a returned finding of the kind about who, with these counts
ErrorFindingFor(i, kind, who, n, e) ==
  \E f \in OfKind(i, "web.error_" \o kind) :
    /\ EndsWith(result[i][f].reason, " in 10-min window for " \o who)
    /\ Get(result[i][f].meta, "events") = IntV(n)
    /\ Get(result[i][f].meta, "errors") = IntV(e)

\* C4: for every user (host) and every 10-minute-aligned bucket, a
\* web.error_user (web.error_host) finding with meta.events the number of
\* events of the bucket is returned if and only if the bucket holds at
\* least 20 timestamped events and at least 65% of them have a status in
\* [400, 600); so 13 errors in 20 events trigger, and 19 events never do.
C4_ErrorRateIffThreshold ==
  \A i \in Invocations :
    Returned(i) =>
      \A kind \in {"user", "host"} :
        \A k0 \in Stamped(i) :
          LET B == BucketOf(i, kind, k0)
              n == Cardinality(B)
              e == Cardinality(ErrorsIn(i, B))
          IN ErrorFindingFor(i, kind, Who(kind, norm[i][k0]), n, e)
               <=> (n >= 20 /\ 100 * e >= 65 * n)

\* C4's case: a returned call with a bucket of exactly 20 events and 13
\* errors that has its finding, beside a bucket of fewer than 20 events,
\* at least 65% of them errors, that has none
C4_Witness ==
  \E i \in Invocations :
    /\ Returned(i)
    /\ \E kind \in {"user", "host"} :
         \E k0, k1 \in Stamped(i) :
           /\ Cardinality(BucketOf(i, kind, k0)) = 20
           /\ Cardinality(ErrorsIn(i, BucketOf(i, kind, k0))) = 13
           /\ ErrorFindingFor(i, kind, Who(kind, norm[i][k0]), 20, 13)
           /\ Cardinality(BucketOf(i, "user", k1)) < 20
           /\ 100 * Cardinality(ErrorsIn(i, BucketOf(i, "user", k1)))
                >= 65 * Cardinality(BucketOf(i, "user", k1))
           /\ OfKind(i, "web.error_user") = {}

(***************************************************************************)
(* Properties of the rare-user-agent and off-hours passes                  *)
(***************************************************************************)
\* the non-empty user-agent strings of the normalized events of the batch
UserAgentsOf(i) ==
  {norm[i][k].user_agent.s : k \in 1..Len(norm[i])} \ {""}

\* the number of events of the batch with the user agent ua
EventsWithUa(i, ua) == Cardinality({k \in 1..Len(norm[i]) : norm[i][k].user_agent.s = ua})

RareUaFindings(i, ua) ==
  {k \in OfKind(i, "web.rare_ua") :
     result[i][k].reason = "Rare user-agent observed: '" \o ua \o "'"}

\* C5: a non-empty user-agent string that occurs on exactly one event of
\* the batch yields exactly one web.rare_ua finding, with score 0.62; one
\* that occurs on two or more events yields none.  The strings are those of
\* the normalized events (stripped of surrounding whitespace).
C5_RareUaOnlyWhenSingle ==
  \A i \in Invocations :
    Returned(i) =>
      \A ua \in UserAgentsOf(i) :
        /\ EventsWithUa(i, ua) = 1 =>
             /\ Cardinality(RareUaFindings(i, ua)) = 1
             /\ \A k \in RareUaFindings(i, ua) : result[i][k].score = 6200
        /\ EventsWithUa(i, ua) >= 2 => RareUaFindings(i, ua) = {}

\* C5's case: a returned call with a user agent on one event, reported, and
\* another on exactly two events, not reported
C5_Witness ==
  \E i \in Invocations :
    /\ Returned(i)
    /\ \E ua, ub \in UserAgentsOf(i) :
         /\ EventsWithUa(i, ua) = 1 /\ Cardinality(RareUaFindings(i, ua)) = 1
         /\ EventsWithUa(i, ub) = 2 /\ RareUaFindings(i, ub) = {}

\* the batch is a single event with status 200 and a timestamp of hour h
SingleLoginAt(i, h) ==
  /\ Len(norm[i]) = 1
  /\ norm[i][1].status = IntV(200)
  /\ HasTs(norm[i][1])
  /\ Hour(norm[i][1].ts) = h

\* C6 as stated: a batch of a single status-200 event whose timestamp has
\* hour 5 yields an auth.offhours finding; with hour 6 it yields none.
C6_SingleLoginAtFive ==
  \A i \in Invocations :
    Returned(i) =>
      /\ SingleLoginAt(i, 5) => OfKind(i, "auth.offhours") # {}
      /\ SingleLoginAt(i, 6) => OfKind(i, "auth.offhours") = {}

\* C6 as the code has it: a batch of a single status-200 event that
\* carries an identifier (not null, not 0, not empty) and whose timestamp
\* has an hour in 0..5 yields exactly one auth.offhours finding, with that
\* identifier; with an hour from 6 on it yields none.
C6_SingleIdentifiedLoginAtFive ==
  \A i \in Invocations :
    Returned(i) =>
      \A h \in 0..23 :
        SingleLoginAt(i, h) =>
          IF h <= 5
          THEN Truthy(norm[i][1].event_id) =>
                 /\ Cardinality(OfKind(i, "auth.offhours")) = 1
                 /\ \A k \in OfKind(i, "auth.offhours") :
                      Get(result[i][k].meta, "event_ids") = ListV(<<norm[i][1].event_id>>)
          ELSE OfKind(i, "auth.offhours") = {}

\* C6's case: a returned call on a single identified status-200 event of
\* hour 5, with its finding
C6_Witness ==
  \E i \in Invocations :
    /\ Returned(i)
    /\ SingleLoginAt(i, 5)
    /\ Truthy(norm[i][1].event_id)
    /\ Cardinality(OfKind(i, "auth.offhours")) = 1

(***************************************************************************)
(* Properties of the call as a whole                                       *)
(***************************************************************************)
\* C7: the returned list depends on the batch alone: two calls on the same
\* batch return the same findings in the same order with the same
\* event_ids, whatever other calls ran before them or run interleaved with
\* them on other batches.
C7_SameBatchSameFindings ==
  \A i, j \in Invocations :
    (Returned(i) /\ Returned(j) /\ events[i] = events[j]) => result[i] = result[j]

\* C7's case: two calls on one batch have returned a finding, and a third
\* call, on another batch, is in its de-dupe loop with candidates of its own
C7_Witness ==
  /\ Returned("a") /\ Returned("b")
  /\ events["a"] = events["b"]
  /\ result["a"] # <<>>
  /\ events["c"] # events["a"]
  /\ pc["c"] = "dedupe" /\ anomalies["c"] # <<>>

\* C10 as stated: detect_anomalies never raises, whatever the fields of the
\* events hold and however zone-qualified and zone-less timestamps are mixed.
C10_NeverRaises ==
  \A i \in Invocations : pc[i] # "raised"

(***************************************************************************)
(* Properties of the scores and of the high-risk source pass               *)
(***************************************************************************)
\* the returned auth.high_risk findings whose meta.risk is the value risk
RiskFindings(i, risk) ==
  {k \in OfKind(i, "auth.high_risk") : Get(result[i][k].meta, "risk") = risk}

\* C11: every finding of a returned list has a score in [0, 1] (scores are
\* in 1/10000); so has the auth.high_risk score for every risk value read
\* from the raw text, negative, very large, infinite or not a number.
C11_ScoresInUnitInterval ==
  \A i \in Invocations :
    Returned(i) =>
      \A k \in 1..Len(result[i]) :
        result[i][k].score >= 0 /\ result[i][k].score <= 10000

\* C11's case: a returned list with a finding of risk -7, clamped to 0, and
\* one of risk 99999, clamped to 1
C11_Witness ==
  \E i \in Invocations :
    /\ Returned(i)
    /\ \E k \in RiskFindings(i, FltV(-700)) : result[i][k].score = 0
    /\ \E k \in RiskFindings(i, FltV(9999900)) : result[i][k].score = 10000

\* the events of the batch whose raw text holds the word w
Naming(i, w) == {k \in 1..Len(norm[i]) : Contains(norm[i][k].raw.s, w)}

\* the returned findings of the high-risk source pass
SourceFindings(i) == OfKind(i, "auth.high_risk") \cup OfKind(i, "auth.tor")

\* the kind the pass gives to an event that names a risk or a TOR source
SourceKind(i, k) == IF k \in Naming(i, "risk=") THEN "auth.high_risk" ELSE "auth.tor"

\* the returned findings of the high-risk source pass that list the
\* identifier of event k and no other
ListingOnly(i, k) ==
  {h \in SourceFindings(i) :
     Get(result[i][h].meta, "event_ids") = ListV(<<norm[i][k].event_id>>)}

\* the identifier of event k is usable and no other event has it
OwnsItsId(i, k) ==
  /\ Truthy(norm[i][k].event_id)
  /\ \A j \in 1..Len(norm[i]) : j # k => norm[i][j].event_id # norm[i][k].event_id

\* C18, as stated: every event whose raw text names a risk or a TOR source
\* has a finding of its own in the returned list, so that there are as many
\* auth.high_risk and auth.tor findings as there are such events.
C18_OneSourceFindingPerEvent ==
  \A i \in Invocations :
    Returned(i) =>
      Cardinality(SourceFindings(i))
        = Cardinality(Naming(i, "risk=") \cup Naming(i, "tor"))

\* C18, amended: the returned list holds at most one finding of the
\* high-risk source pass per event that names a risk or a TOR source; for
\* each such event it holds a finding of the event's kind (auth.high_risk
\* when the raw text holds "risk=", auth.tor otherwise) that lists the
\* event's identifier; and an event with an identifier of its own has
\* exactly one finding, of that kind, when it names a risk or a TOR source,
\* and none otherwise.
C18_OneSourceFindingPerDistinctEvent ==
  \A i \in Invocations :
    Returned(i) =>
      LET named == Naming(i, "risk=") \cup Naming(i, "tor")
      IN /\ Cardinality(SourceFindings(i)) <= Cardinality(named)
         /\ \A k \in named :
              \E h \in SourceFindings(i) :
                /\ result[i][h].kind = SourceKind(i, k)
                /\ Get(result[i][h].meta, "event_ids") = OwnId(norm[i][k])
         /\ \A k \in 1..Len(norm[i]) :
              OwnsItsId(i, k) =>
                /\ Cardinality(ListingOnly(i, k)) = (IF k \in named THEN 1 ELSE 0)
                /\ \A h \in ListingOnly(i, k) : result[i][h].kind = SourceKind(i, k)

\* C18's case: a returned list for two events with identifiers, one naming
\* both a TOR source and a risk, the other a TOR source only
C18_Witness ==
  \E i \in Invocations :
    /\ Returned(i)
    /\ \E j \in Naming(i, "risk=") \cap Naming(i, "tor") :
         OwnsItsId(i, j) /\ Cardinality(ListingOnly(i, j)) = 1
    /\ \E k \in Naming(i, "tor") \ Naming(i, "risk=") :
         OwnsItsId(i, k) /\ Cardinality(ListingOnly(i, k)) = 1

\* the token behind "risk=" in the raw text of event k is missing or is not
\* a number
NoRiskNumber(i, k) ==
  LET frag == After(norm[i][k].raw.s, "risk=")
  IN \/ FirstToken(frag) = ""
     \/ ~ParseFloat(StripChars(FirstToken(frag), {" ", ";", ","})).ok

\* the default risk 0.9
DefaultRisk == FltV(90)

\* C19: an event whose raw text holds "risk=" followed by no token or by a
\* token that is no number still gets an auth.high_risk finding in the
\* returned list, with meta.risk 0.9 and score 0.85 + 0.15 * 0.9 = 0.985.
C19_BadRiskTokenGetsDefault ==
  \A i \in Invocations :
    Returned(i) =>
      \A k \in Naming(i, "risk=") :
        NoRiskNumber(i, k) =>
          \E h \in OfKind(i, "auth.high_risk") :
            /\ Get(result[i][h].meta, "risk") = DefaultRisk
            /\ result[i][h].score = 8500 + 15 * 90
            /\ Get(result[i][h].meta, "event_ids") = OwnId(norm[i][k])

\* C19's case: a returned list for an event with no token behind "risk="
\* and one with a token that is no number, each with an identifier
C19_Witness ==
  \E i \in Invocations :
    /\ Returned(i)
    /\ \E j, k \in Naming(i, "risk=") :
         /\ FirstToken(After(norm[i][j].raw.s, "risk=")) = ""
         /\ FirstToken(After(norm[i][k].raw.s, "risk=")) # "" /\ NoRiskNumber(i, k)
         /\ OwnsItsId(i, j) /\ OwnsItsId(i, k)
         /\ Cardinality(ListingOnly(i, j)) = 1 /\ Cardinality(ListingOnly(i, k)) = 1

(***************************************************************************)
(* Properties of the blocked-login pass and of the activity pass           *)
(***************************************************************************)
\* the events of the batch with status 403 whose raw text holds
\* "brute-force" or "blocked"
BlockedEvents(i) ==
  {k \in 1..Len(norm[i]) :
     /\ norm[i][k].status = IntV(403)
     /\ Contains(norm[i][k].raw.s, "brute-force") \/ Contains(norm[i][k].raw.s, "blocked")}

\* what tells one blocked login from another in a finding: the user, the
\* address and the listed identifier
BlockedMark(ev) == <<PyStr(ev.user), PyStr(ev.src_ip), OwnId(ev)>>

\* C16, as stated: the returned list holds as many auth.blocked findings as
\* the batch has events with status 403 whose raw text holds "brute-force"
\* or "blocked".
C16_OneBlockedFindingPerEvent ==
  \A i \in Invocations :
    Returned(i) =>
      Cardinality(OfKind(i, "auth.blocked")) = Cardinality(BlockedEvents(i))

\* C16, amended: the returned list holds as many auth.blocked findings as
\* there are different combinations of user, address and identifier among
\* those events, and for every such event a finding with score 0.9 that
\* lists the event's identifier.
C16_OneBlockedFindingPerDistinctEvent ==
  \A i \in Invocations :
    Returned(i) =>
      /\ Cardinality(OfKind(i, "auth.blocked"))
           = Cardinality({BlockedMark(norm[i][k]) : k \in BlockedEvents(i)})
      /\ \A k \in BlockedEvents(i) :
           \E h \in OfKind(i, "auth.blocked") :
             /\ result[i][h].score = 9000
             /\ Get(result[i][h].meta, "event_ids") = OwnId(norm[i][k])

\* C16's case: a returned list with two auth.blocked findings for two
\* blocked logins of one user that differ in their identifiers only
C16_Witness ==
  \E i \in Invocations :
    /\ Returned(i)
    /\ Cardinality(OfKind(i, "auth.blocked")) = 2
    /\ \E j, k \in BlockedEvents(i) :
         /\ j # k
         /\ norm[i][j].user = norm[i][k].user
         /\ norm[i][j].event_id # norm[i][k].event_id

\* the text the recognizers read, and the bucket of an event
ActivityText(ev) ==
  Join(Map(Filter(<<ev.action, ev.status, ev.url, ev.user_agent, ev.raw>>, Truthy), PyStr))
ActivityBucket(ev) ==
  [minute |-> IF HasTs(ev) THEN bucket_minute(ev.ts) ELSE "unknown",
   user |-> IF strip(ev.user.s) = "" THEN "<unknown>" ELSE strip(ev.user.s),
   src_ip |-> IF strip(ev.src_ip.s) = "" THEN "<ip?>" ELSE strip(ev.src_ip.s)]

\* the events that match the password recognizer, and the MFA recognizer
PasswordEvents(i) == {k \in 1..Len(norm[i]) : PASSWORD_RESET_RE(ActivityText(norm[i][k]))}
MfaEvents(i) == {k \in 1..Len(norm[i]) : MFA_RE(ActivityText(norm[i][k]))}

\* the returned findings of a kind for a bucket
BucketFindings(i, kind, b) ==
  {h \in OfKind(i, kind) :
     /\ Get(result[i][h].meta, "minute") = StrV(b.minute)
     /\ Get(result[i][h].meta, "user") = StrV(b.user)
     /\ Get(result[i][h].meta, "src_ip") = StrV(b.src_ip)}

\* the identifiers of the events of set matching that fall in bucket b, in
\* batch order, the first 50 of them
BucketIds(i, matching, b) ==
  LET InBucket(k) == k \in matching /\ ActivityBucket(norm[i][k]) = b
                     /\ HasId(norm[i][k].event_id)
      At_(k) == norm[i][k].event_id
  IN ListV(Take(Map(Filter([k \in 1..Len(norm[i]) |-> k], InBucket), At_), 50))

\* one finding of the kind per bucket of the matching events, with the
\* identifiers of the bucket, and no finding of the kind besides
OnePerBucket(i, kind, matching) ==
  LET buckets == {ActivityBucket(norm[i][k]) : k \in matching}
  IN /\ Cardinality(OfKind(i, kind)) = Cardinality(buckets)
     /\ \A b \in buckets :
          /\ Cardinality(BucketFindings(i, kind, b)) = 1
          /\ \A h \in BucketFindings(i, kind, b) :
               Get(result[i][h].meta, "event_ids") = BucketIds(i, matching, b)

\* C17: for every bucket (minute or "unknown", user or "<unknown>", address
\* or "<ip?>") with an event that matches the password recognizer the
\* returned list holds exactly one auth.password_reset finding, and for
\* every bucket with an event that matches the MFA recognizer exactly one
\* auth.mfa_activity finding; the finding lists the identifiers of the
\* matching events of the bucket, and is there with an empty list when
\* none of them has one.
C17_OneActivityFindingPerBucket ==
  \A i \in Invocations :
    Returned(i) =>
      /\ OnePerBucket(i, "auth.password_reset", PasswordEvents(i))
      /\ OnePerBucket(i, "auth.mfa_activity", MfaEvents(i))

\* C17's case: a returned list with a password finding without identifiers
\* for a bucket of two events, and an MFA finding for a bucket without a
\* timestamp
C17_Witness ==
  \E i \in Invocations :
    /\ Returned(i)
    /\ \E j, k \in PasswordEvents(i) :
         /\ j # k /\ ActivityBucket(norm[i][j]) = ActivityBucket(norm[i][k])
         /\ \E h \in BucketFindings(i, "auth.password_reset", ActivityBucket(norm[i][k])) :
              Get(result[i][h].meta, "event_ids") = ListV(<<>>)
    /\ \E k \in MfaEvents(i) :
         /\ ActivityBucket(norm[i][k]).minute = "unknown"
         /\ BucketFindings(i, "auth.mfa_activity", ActivityBucket(norm[i][k])) # {}

(***************************************************************************)
(* Properties of the identifiers that findings list                        *)
(***************************************************************************)
\* the most identifiers a finding of the kind may list
IdCap(kind) == IF kind = "web.rare_ua" THEN 10 ELSE 50

\* C12: every finding of a returned list has meta.event_ids, a list of at
\* most 50 identifiers (at most 10 for web.rare_ua), none of them None,
\* also when more than 50 events contribute to the finding.
C12_EventIdsCapped ==
  \A i \in Invocations :
    Returned(i) =>
      \A h \in 1..Len(result[i]) :
        LET ids == Get(result[i][h].meta, "event_ids")
        IN /\ ids.ty = "list"
           /\ Len(ids.l) <= IdCap(result[i][h].kind)
           /\ \A n \in 1..Len(ids.l) : ids.l[n].ty # "none"

\* C12's case: a returned list for a batch of more than 50 events with
\* identifiers, all in one bucket, with a password finding and an
\* error-rate finding that list 50 identifiers each
C12_Witness ==
  \E i \in Invocations :
    /\ Returned(i)
    /\ Cardinality({k \in 1..Len(norm[i]) : HasId(norm[i][k].event_id)}) > 50
    /\ \E h \in OfKind(i, "auth.password_reset") :
         Len(Get(result[i][h].meta, "event_ids").l) = 50
    /\ \E h \in OfKind(i, "web.error_user") :
         /\ Get(result[i][h].meta, "events").n > 50
         /\ Len(Get(result[i][h].meta, "event_ids").l) = 50

\* event k of the batch satisfies the condition of the detector that gave
\* the returned finding h, for the key the finding names
Satisfies(i, h, k) ==
  LET f == result[i][h]
      ev == norm[i][k]
      InBucketOf ==
        /\ ActivityBucket(ev).minute = Get(f.meta, "minute").s
        /\ ActivityBucket(ev).user = Get(f.meta, "user").s
        /\ ActivityBucket(ev).src_ip = Get(f.meta, "src_ip").s
  IN CASE f.kind = "auth.password_reset" ->
            PASSWORD_RESET_RE(ActivityText(ev)) /\ InBucketOf
       [] f.kind = "auth.mfa_activity" -> MFA_RE(ActivityText(ev)) /\ InBucketOf
       [] f.kind = "auth.bruteforce_user" ->
            /\ ev.status = IntV(401) /\ HasTs(ev)
            /\ k_user(ev) = Get(f.meta, "user").s
       [] f.kind = "auth.bruteforce_pair" ->
            /\ ev.status = IntV(401) /\ HasTs(ev)
            /\ k_pair(ev) = <<Get(f.meta, "user").s, Get(f.meta, "src_ip").s>>
       [] f.kind = "auth.blocked" ->
            /\ ev.status = IntV(403)
            /\ Contains(ev.raw.s, "brute-force") \/ Contains(ev.raw.s, "blocked")
       [] f.kind = "auth.high_risk" -> Contains(ev.raw.s, "risk=")
       [] f.kind = "auth.tor" ->
            Contains(ev.raw.s, "tor") /\ ~Contains(ev.raw.s, "risk=")
       [] f.kind = "web.error_user" ->
            HasTs(ev) /\ EndsWith(f.reason, " in 10-min window for " \o PyStr(ev.user))
       [] f.kind = "web.error_host" ->
            HasTs(ev) /\ EndsWith(f.reason, " in 10-min window for " \o ev.host.s)
       [] f.kind = "web.rare_ua" ->
            f.reason = "Rare user-agent observed: '" \o ev.user_agent.s \o "'"
       [] f.kind = "auth.offhours" ->
            /\ ev.status = IntV(200) /\ HasTs(ev)
            /\ Hour(ev.ts) >= 0 /\ Hour(ev.ts) <= 5
       [] f.kind = "auth.token_fail_burst" ->
            /\ ev.status = IntV(401) /\ HasTs(ev)
            /\ Contains(ev.url.s, "/oauth/token")
            /\ EndsWith(f.reason, " at " \o (IF ev.host.s = "" THEN "<auth>" ELSE ev.host.s))
       [] OTHER -> FALSE

\* C13: every identifier that a returned finding lists is the identifier
\* (event_id, or id when event_id is None) of an event of the batch that
\* satisfies the condition of the finding's detector for the finding's key;
\* no identifier comes from the window or bucket of another key.
C13_ListedIdsBelongToMatchingEvents ==
  \A i \in Invocations :
    Returned(i) =>
      \A h \in 1..Len(result[i]) :
        LET ids == Get(result[i][h].meta, "event_ids").l
        IN \A n \in 1..Len(ids) :
             \E k \in 1..Len(events[i]) :
               InputId(events[i][k]) = ids[n] /\ Satisfies(i, h, k)

\* C13's case: a returned list with a brute-force finding for each of two
\* users whose failures alternate, one listing identifiers given as
\* event_id and the other identifiers given as id, and a token-burst finding
C13_Witness ==
  \E i \in Invocations :
    /\ Returned(i)
    /\ \E h \in UserFindings(i, "alice") :
         Get(result[i][h].meta, "event_ids").l[1] = IntV(1)
    /\ \E h \in UserFindings(i, "bob") :
         Get(result[i][h].meta, "event_ids").l[1] = IntV(102)
    /\ OfKind(i, "auth.bruteforce_pair") # {}
    /\ OfKind(i, "auth.token_fail_burst") # {}

(***************************************************************************)
(* Properties of the events without a readable timestamp                   *)
(***************************************************************************)
\* the events of the batch whose timestamp is missing or unreadable, and
\* the others
Timeless(i) == {k \in 1..Len(events[i]) : events[i][k].ts \in Unreadable}
Timed(i) == (1..Len(events[i])) \ Timeless(i)

\* the kinds of the findings of the passes that go by time
TimedKinds ==
  {"auth.bruteforce_user", "auth.bruteforce_pair", "web.error_user", "web.error_host",
   "auth.offhours", "auth.token_fail_burst"}

\* the number of events that the returned finding h counts
Counted(i, h) ==
  LET f == result[i][h]
  IN CASE f.kind \in {"web.error_user", "web.error_host"} -> Get(f.meta, "events").n
       [] f.kind = "auth.offhours" -> Len(Get(f.meta, "event_ids").l)
       [] OTHER -> Get(f.meta, "failures").n

\* the returned findings of a kind that list the identifier of event k
Listing(i, kind, k) ==
  {h \in OfKind(i, kind) :
     \E n \in 1..Len(Get(result[i][h].meta, "event_ids").l) :
       Get(result[i][h].meta, "event_ids").l[n] = norm[i][k].event_id}

\* C14: an event without a readable timestamp is not listed in and not
\* counted by any brute-force, error-rate, off-hours or token-burst finding
\* (such a finding counts no more events than there are timestamped events
\* that satisfy its condition); but it gets the findings of the password
\* and MFA, blocked-login, high-risk-source and rare-user-agent passes.
C14_TimelessEventsOnlyInTimelessPasses ==
  \A i \in Invocations :
    Returned(i) =>
      /\ \A h \in 1..Len(result[i]) :
           result[i][h].kind \in TimedKinds =>
             /\ \A k \in Timeless(i) :
                  OwnsItsId(i, k) => h \notin Listing(i, result[i][h].kind, k)
             /\ Counted(i, h) <= Cardinality({k \in Timed(i) : Satisfies(i, h, k)})
      /\ \A k \in Timeless(i) :
           OwnsItsId(i, k) =>
             /\ PASSWORD_RESET_RE(ActivityText(norm[i][k]))
                  => Listing(i, "auth.password_reset", k) # {}
             /\ MFA_RE(ActivityText(norm[i][k]))
                  => Listing(i, "auth.mfa_activity", k) # {}
             /\ k \in BlockedEvents(i) => Listing(i, "auth.blocked", k) # {}
             /\ k \in Naming(i, "risk=") => Listing(i, "auth.high_risk", k) # {}
             /\ EventsWithUa(i, norm[i][k].user_agent.s) = 1
                  => Listing(i, "web.rare_ua", k) # {}

\* C14's case: a returned list for ten failed token exchanges of which the
\* last has no readable timestamp: no brute-force finding, and a password,
\* a high-risk and a rare-user-agent finding that list the last event
C14_Witness ==
  \E i \in Invocations :
    /\ Returned(i)
    /\ Len(norm[i]) = 10 /\ 10 \in Timeless(i)
    /\ \A k \in 1..10 : norm[i][k].status = IntV(401)
    /\ OfKind(i, "auth.bruteforce_user") = {}
    /\ Listing(i, "auth.password_reset", 10) # {}
    /\ Listing(i, "auth.high_risk", 10) # {}
    /\ Listing(i, "web.rare_ua", 10) # {}

(***************************************************************************)
(* Properties of repeated brute-force bursts                               *)
(***************************************************************************)
\* the times the window of user key u reached 10: the candidates appended
\* for u by the brute-force pass
UserTriggers(i, u) ==
  {k \in 1..Len(anomalies[i]) :
     /\ anomalies[i][k].kind = "auth.bruteforce_user"
     /\ Get(anomalies[i][k].meta, "user") = StrV(u)}

\* the batch is 20 failed logins of one user in the order of their times,
\* the first ten within 120 s and the last ten within 120 s
TwoRounds(i) ==
  LET nm == norm[i]
  IN /\ Len(nm) = 20
     /\ \A k \in 1..20 :
          nm[k].status = IntV(401) /\ HasTs(nm[k]) /\ k_user(nm[k]) = k_user(nm[1])
     /\ \A k \in 1..19 : Instant(nm[k].ts) <= Instant(nm[k + 1].ts)
     /\ Instant(nm[10].ts) - Instant(nm[1].ts) <= 120
     /\ Instant(nm[20].ts) - Instant(nm[11].ts) <= 120

\* the identifiers of events from..to, in arrival order
IdsOf(i, from, to) == ListV(Map(Filter(SubSeq(norm[i], from, to), EvHasId), EvId))

\* C15, as stated: the returned list holds as many auth.bruteforce_user
\* findings for a user as the times the user's window reached 10.
C15_OneFindingPerTrigger ==
  \A i \in Invocations :
    Returned(i) =>
      \A u \in UserKeys(i) :
        Cardinality(UserFindings(i, u)) = Cardinality(UserTriggers(i, u))

\* C15, amended: the returned list holds as many auth.bruteforce_user
\* findings for a user as there are different event_ids lists among the
\* times the user's window reached 10; twenty failures in two rounds of ten
\* make the window reach 10 twice, and the returned list holds a finding
\* for the second round, listing the identifiers of events 11..20, unless
\* these are the identifiers of events 1..10 in the same order.
C15_OneFindingPerDistinctTrigger ==
  \A i \in Invocations :
    Returned(i) =>
      /\ \A u \in UserKeys(i) :
           Cardinality(UserFindings(i, u))
             = Cardinality({Get(anomalies[i][k].meta, "event_ids") : k \in UserTriggers(i, u)})
      /\ TwoRounds(i) =>
           LET u == k_user(norm[i][1])
           IN /\ Cardinality(UserTriggers(i, u)) = 2
              /\ Cardinality(UserFindings(i, u))
                   = (IF IdsOf(i, 1, 10) = IdsOf(i, 11, 20) THEN 1 ELSE 2)
              /\ \E h \in UserFindings(i, u) :
                   Get(result[i][h].meta, "event_ids") = IdsOf(i, 11, 20)

\* C15's case: a returned list for two rounds with identifiers, with a
\* second finding that lists those of the second round
C15_Witness ==
  \E i \in Invocations :
    /\ Returned(i) /\ TwoRounds(i)
    /\ Cardinality(UserFindings(i, k_user(norm[i][1]))) = 2
    /\ \E h \in UserFindings(i, k_user(norm[i][1])) :
         Get(result[i][h].meta, "event_ids") = ListV([k \in 1..10 |-> IntV(10 + k)])

(***************************************************************************)
(* Properties of the grouping for the report                               *)
(***************************************************************************)
\* _group_anomalies has returned
Grouped(i) == pc[i] = "grouped"

\* the groups of a kind
GroupsOf(i, kind) == {g \in 1..Len(grouped[i]) : grouped[i][g].kind = kind}

\* C20: _group_anomalies returns exactly one group for every kind among
\* the findings it is given and no other group; the count of a group is
\* the number of findings of its kind, so the counts sum to the number of
\* findings; a group has at most 5 reasons, 10 users, 10 source addresses
\* and 25 samples, every sample an event of the id-to-event map; and the
\* counts of the groups never increase along the list.
C20_OneGroupPerKind ==
  \A i \in Invocations :
    Grouped(i) =>
      /\ \A h \in 1..Len(result[i]) :
           Cardinality(GroupsOf(i, result[i][h].kind)) = 1
      /\ \A g \in 1..Len(grouped[i]) :
           LET grp == grouped[i][g]
           IN /\ Cardinality(GroupsOf(i, grp.kind)) = 1
              /\ grp.count = Cardinality(OfKind(i, grp.kind))
              /\ grp.count >= 1
              /\ Len(grp.reasons) <= 5
              /\ Len(grp.users) <= 10
              /\ Len(grp.src_ips) <= 10
              /\ Len(grp.samples) <= 25
              /\ \A n \in 1..Len(grp.samples) :
                   \E k \in 1..Len(events[i]) :
                     HasId(InputId(events[i][k])) /\ grp.samples[n] = events[i][k]
              /\ g < Len(grouped[i]) => grp.count >= grouped[i][g + 1].count

\* C20's case: the groups of a batch with 11 refused logins and more than
\* 25 logins before dawn: the group of the refused logins comes first, cut
\* to 5 reasons, 10 users and 10 addresses, before the group of the
\* password reset, whose finding came first; the off-hours group is cut to
\* 25 samples
C20_Witness ==
  \E i \in Invocations :
    /\ Grouped(i)
    /\ Cardinality(OfKind(i, "auth.blocked")) = 11
    /\ result[i][1].kind = "auth.password_reset"
    /\ grouped[i][1].kind = "auth.blocked"
    /\ Len(grouped[i][1].reasons) = 5
    /\ Len(grouped[i][1].users) = 10
    /\ Len(grouped[i][1].src_ips) = 10
    /\ \E g \in GroupsOf(i, "auth.offhours") : Len(grouped[i][g].samples) = 25
    /\ \E h \in OfKind(i, "auth.offhours") :
         Len(Get(result[i][h].meta, "event_ids").l) > 25
(***************************************************************************)
(* Properties of the sliding windows                                       *)
(***************************************************************************)
WindowKinds == {"auth.bruteforce_user", "auth.bruteforce_pair", "auth.token_fail_burst"}

Threshold(kind) == IF kind = "auth.token_fail_burst" THEN 15 ELSE BRUTE_FORCE_MIN_FAILS

\* the candidates of a kind that the passes have appended so far
Emitted(i, kind) == {k \in 1..Len(anomalies[i]) : anomalies[i][k].kind = kind}

\* the identifiers a candidate lists
Listed(a) == {Get(a.meta, "event_ids").l[n] : n \in 1..Len(Get(a.meta, "event_ids").l)}

\* every event of the batch has an identifier of its own
OwnIds(i) ==
  /\ \A k \in 1..Len(norm[i]) : HasId(norm[i][k].event_id)
  /\ \A j, k \in 1..Len(norm[i]) : norm[i][j].event_id = norm[i][k].event_id => j = k

\* the events of time_sorted that the running loop has been through
Scanned(i) == SubSeq(time_sorted[i], 1, cursor[i] - 1)

\* how many of the events scanned are failures with the key
ScannedWith(i, Key(_), key) ==
  Cardinality({k \in 1..Len(Scanned(i)) : Is401(Scanned(i)[k]) /\ Key(Scanned(i)[k]) = key})

ScannedTokenFailures(i, h) ==
  Cardinality({k \in 1..Len(Scanned(i)) :
                 IsTokenFailure(Scanned(i)[k]) /\ TokenHost(Scanned(i)[k]) = h})

\* the candidates appended for a key: the reason names the key
EmittedFor(i, kind, reason) ==
  Cardinality({k \in Emitted(i, kind) : anomalies[i][k].reason = reason})

\* C21: a window is cleared when it triggers.  While a window loop runs,
\* the failures scanned for a key are at least threshold-many for every
\* finding appended for the key, plus those waiting in the key's window;
\* and where every event has an identifier of its own, no identifier is
\* listed by two findings of one kind, and every finding lists
\* threshold-many of them.
C21_WindowResetOnTrigger ==
  \A i \in Invocations :
    /\ pc[i] = "brute_force" =>
         /\ \A w \in win_user[i] :
              ScannedWith(i, k_user, w[1])
                >= BRUTE_FORCE_MIN_FAILS
                     * EmittedFor(i, "auth.bruteforce_user", UserFinding(w[1], <<>>).reason)
                   + Len(w[2])
         /\ \A w \in win_pair[i] :
              ScannedWith(i, k_pair, w[1])
                >= BRUTE_FORCE_MIN_FAILS
                     * EmittedFor(i, "auth.bruteforce_pair", PairFinding(w[1], <<>>).reason)
                   + Len(w[2])
    /\ pc[i] = "token" =>
         \A w \in win[i] :
           ScannedTokenFailures(i, w[1])
             >= 15 * EmittedFor(i, "auth.token_fail_burst", TokenFinding(w[1], <<>>).reason)
                + Len(w[2])
    /\ OwnIds(i) =>
         \A kind \in WindowKinds :
           \A j, k \in Emitted(i, kind) :
             /\ Cardinality(Listed(anomalies[i][k])) >= Threshold(kind)
             /\ j # k => Listed(anomalies[i][j]) \cap Listed(anomalies[i][k]) = {}

\* C21's case: a returned list with three findings for one user, two for
\* one pair and two for one host, every event with an identifier of its own
C21_Witness ==
  \E i \in Invocations :
    /\ Returned(i) /\ OwnIds(i)
    /\ Cardinality(OfKind(i, "auth.bruteforce_user")) = 3
    /\ Cardinality(OfKind(i, "auth.bruteforce_pair")) = 2
    /\ Cardinality(OfKind(i, "auth.token_fail_burst")) = 2

\* the newest timestamp pushed into a window that is not empty
Newest(q) == q[Len(q)][1]

\* no entry of q is more than span seconds older than the newest
WithinSpan(q, span) == \A k \in 1..Len(q) : Newest(q) - q[k][1] \in 0..span

\* how many of the failures scanned, told by Counts, are at most span
\* seconds older than the instant t
ScannedSince(i, Counts(_), t, span) ==
  Cardinality({k \in 1..Len(Scanned(i)) :
                 Counts(Scanned(i)[k]) /\ t - Instant(Scanned(i)[k].ts) <= span})

\* the event of time_sorted with the identifier x
Carrier(i, x) == CHOOSE k \in 1..Len(time_sorted[i]) : time_sorted[i][k].event_id = x

\* the instants of the failures a finding lists, and that of the last one
\* listed, which made the window trigger
ListedInstants(i, a) == {Instant(time_sorted[i][Carrier(i, x)].ts) : x \in Listed(a)}

TriggerInstant(i, a) ==
  LET ids == Get(a.meta, "event_ids").l
  IN Instant(time_sorted[i][Carrier(i, ids[Len(ids)])].ts)

\* C22: after each push and eviction every entry left in a window is at
\* most 120 s (brute force) or 300 s (token bursts) older than the newest
\* one; until a window has triggered it holds every failure of its key
\* that is at most that much older than the newest, one exactly 120 s or
\* 300 s older included; and the failures a finding lists lie within
\* 120 s, or 300 s, before the failure that triggered it.
C22_WindowEntriesWithinSpan ==
  \A i \in Invocations :
    /\ pc[i] = "brute_force" =>
         /\ \A w \in win_user[i] :
              w[2] # <<>> =>
                /\ WithinSpan(w[2], BRUTE_FORCE_WINDOW_SEC)
                /\ Emitted(i, "auth.bruteforce_user") = {} =>
                     LET Counts(ev) == Is401(ev) /\ k_user(ev) = w[1]
                     IN Len(w[2]) = ScannedSince(i, Counts, Newest(w[2]), BRUTE_FORCE_WINDOW_SEC)
         /\ \A w \in win_pair[i] :
              w[2] # <<>> =>
                /\ WithinSpan(w[2], BRUTE_FORCE_WINDOW_SEC)
                /\ Emitted(i, "auth.bruteforce_pair") = {} =>
                     LET Counts(ev) == Is401(ev) /\ k_pair(ev) = w[1]
                     IN Len(w[2]) = ScannedSince(i, Counts, Newest(w[2]), BRUTE_FORCE_WINDOW_SEC)
    /\ pc[i] = "token" =>
         \A w \in win[i] :
           w[2] # <<>> =>
             /\ WithinSpan(w[2], 300)
             /\ Emitted(i, "auth.token_fail_burst") = {} =>
                  LET Counts(ev) == IsTokenFailure(ev) /\ TokenHost(ev) = w[1]
                  IN Len(w[2]) = ScannedSince(i, Counts, Newest(w[2]), 300)
    /\ OwnIds(i) =>
         \A kind \in WindowKinds :
           \A k \in Emitted(i, kind) :
             \A t \in ListedInstants(i, anomalies[i][k]) :
               TriggerInstant(i, anomalies[i][k]) - t
                 \in 0..(IF kind = "auth.token_fail_burst" THEN 300 ELSE BRUTE_FORCE_WINDOW_SEC)

\* C22's case: a window of a host that keeps an entry exactly 300 s old
\* after older ones were evicted, in a call whose brute-force loop went
\* through failures of one user 120 s apart without a finding
C22_Witness ==
  \E i \in Invocations :
    /\ pc[i] = "token"
    /\ \E w \in win[i] :
         /\ w[2] # <<>> /\ Newest(w[2]) - w[2][1][1] = 300
         /\ ScannedTokenFailures(i, w[1]) > Len(w[2])
    /\ Emitted(i, "auth.bruteforce_user") = {}
    /\ \E j, k \in 1..Len(time_sorted[i]) :
         /\ Is401(time_sorted[i][j]) /\ Is401(time_sorted[i][k])
         /\ k_user(time_sorted[i][j]) = k_user(time_sorted[i][k])
         /\ Instant(time_sorted[i][k].ts) - Instant(time_sorted[i][j].ts) = BRUTE_FORCE_WINDOW_SEC

\* the windows of a call, of the three kinds
WindowsOf(i, kind) ==
  CASE kind = "auth.bruteforce_user" -> win_user[i]
    [] kind = "auth.bruteforce_pair" -> win_pair[i]
    [] kind = "auth.token_fail_burst" -> win[i]

\* C25: between two iterations of a window loop no window holds as many
\* entries as its threshold, and every auth.bruteforce_user and
\* auth.bruteforce_pair finding, appended or returned, has meta.failures
\* 10, every auth.token_fail_burst finding 15.
C25_FailuresExactlyThreshold ==
  \A i \in Invocations :
    \A kind \in WindowKinds :
      /\ \A w \in WindowsOf(i, kind) : Len(w[2]) < Threshold(kind)
      /\ \A k \in Emitted(i, kind) :
           Get(anomalies[i][k].meta, "failures") = IntV(Threshold(kind))
      /\ Returned(i) =>
           \A k \in OfKind(i, kind) :
             Get(result[i][k].meta, "failures") = IntV(Threshold(kind))

\* C25's case: a returned list with findings of the three kinds for a
\* batch with more failures in 120 s than twice the larger threshold
C25_Witness ==
  \E i \in Invocations :
    /\ Returned(i)
    /\ \A kind \in WindowKinds : OfKind(i, kind) # {}
    /\ Len(time_sorted[i]) > 2 * 15
    /\ Instant(time_sorted[i][Len(time_sorted[i])].ts) - Instant(time_sorted[i][1].ts)
         <= BRUTE_FORCE_WINDOW_SEC

\* the positions of list l before position k that hold an
\* auth.bruteforce_user finding for the user of the finding at k
UserFindingsBefore(l, k) ==
  {j \in 1..(k - 1) :
     /\ l[j].kind = "auth.bruteforce_user"
     /\ Get(l[j].meta, "user") = Get(l[k].meta, "user")}

\* C26: an auth.bruteforce_pair finding is appended only after an
\* auth.bruteforce_user finding for its user was appended, and in the
\* returned list it stands behind one.
C26_PairFindingAfterUserFinding ==
  \A i \in Invocations :
    /\ \A k \in Emitted(i, "auth.bruteforce_pair") : UserFindingsBefore(anomalies[i], k) # {}
    /\ Returned(i) =>
         \A k \in OfKind(i, "auth.bruteforce_pair") : UserFindingsBefore(result[i], k) # {}

\* C26's case: a returned auth.bruteforce_pair finding that was triggered
\* by another failure than any auth.bruteforce_user finding
C26_Witness ==
  \E i \in Invocations :
    /\ Returned(i) /\ OwnIds(i)
    /\ \E k \in OfKind(i, "auth.bruteforce_pair") :
         \A j \in OfKind(i, "auth.bruteforce_user") :
           TriggerInstant(i, result[i][k]) # TriggerInstant(i, result[i][j])

\* C27: every web.rare_ua finding returned has meta.count 1 and score
\* 0.62: the score 0.58 of the other branch is never given.
C27_RareUaCountOneScore62 ==
  \A i \in Invocations :
    Returned(i) =>
      \A k \in OfKind(i, "web.rare_ua") :
        /\ Get(result[i][k].meta, "count") = IntV(1)
        /\ result[i][k].score = 6200

\* C27's case: a returned list with two web.rare_ua findings, for a batch
\* that also has an event whose user agent is empty once stripped
C27_Witness ==
  \E i \in Invocations :
    /\ Returned(i)
    /\ Cardinality(OfKind(i, "web.rare_ua")) = 2
    /\ \E k \in 1..Len(norm[i]) : norm[i][k].user_agent.s = ""
    /\ \E k \in 1..Len(events[i]) : events[i][k].user_agent = StrV("  ")

(***************************************************************************)
(* Properties of the findings that the worker stores                       *)
(***************************************************************************)
\* every event of the batch has an identifier that is neither None nor 0
IdsNotNullNotZero(i) ==
  \A k \in 1..Len(events[i]) : InputId(events[i][k]) \notin {NoneV, IntV(0), FltV(0)}

\* every event of the batch has an identifier that bool() takes for true
IdsTruthy(i) == \A k \in 1..Len(events[i]) : Truthy(InputId(events[i][k]))

\* every finding returned lists an identifier, which the worker can take
AllListAnId(i) ==
  \A k \in 1..Len(result[i]) :
    /\ Get(result[i][k].meta, "event_ids").l # <<>>
    /\ FirstEventId(result[i][k]).ok

\* C28, as stated: if every event of the batch has an identifier that is
\* not None and not 0, every finding returned has a non-empty
\* meta.event_ids, and taking its first element does not fail.
C28_NonZeroIdsListed ==
  \A i \in Invocations : (Returned(i) /\ IdsNotNullNotZero(i)) => AllListAnId(i)

\* C28, amended: if every event of the batch has an identifier that is not
\* None, not 0 and not empty, every finding returned has a non-empty
\* meta.event_ids, and taking its first element does not fail.
C28_TruthyIdsListed ==
  \A i \in Invocations : (Returned(i) /\ IdsTruthy(i)) => AllListAnId(i)

\* the kinds of the findings returned
KindsReturned(i) == {result[i][k].kind : k \in 1..Len(result[i])}

\* C28's case: the events under their database ids, returned with findings
\* of the window passes, the error-rate pass, the rare-user-agent pass and
\* the activity pass
C28_Witness ==
  \E i \in Invocations :
    /\ Returned(i) /\ IdsTruthy(i)
    /\ \A k \in 1..Len(events[i]) : events[i][k].event_id = IntV(k)
    /\ {"auth.bruteforce_user", "auth.bruteforce_pair", "auth.token_fail_burst",
        "web.error_host", "web.rare_ua", "auth.mfa_activity"} \subseteq KindsReturned(i)

(***************************************************************************)
(* Properties of the order of arrival                                      *)
(***************************************************************************)
\* the events of the two batches are the same, each as often
SameEvents(i, j) ==
  /\ Len(events[i]) = Len(events[j])
  /\ \A k \in 1..Len(events[i]) :
       Occurrences(events[i], events[i][k]) = Occurrences(events[j], events[i][k])

\* no two events with a timestamp have the same instant
DistinctInstants(i) ==
  \A j, k \in 1..Len(time_sorted[i]) :
    Instant(time_sorted[i][j].ts) = Instant(time_sorted[i][k].ts) => j = k

TimeOrderKinds ==
  {"auth.bruteforce_user", "auth.bruteforce_pair", "web.error_user", "web.error_host",
   "auth.offhours", "auth.token_fail_burst"}

\* the findings returned by the passes that scan time_sorted, in the order
\* of the returned list
TimeOrderFindings(i) ==
  LET OfTimeOrder(a) == a.kind \in TimeOrderKinds
  IN Filter(result[i], OfTimeOrder)

\* the call has returned, and its caller may have gone on
HasReturned(i) == pc[i] \in {"done", "grouped"}

\* C29: two calls on the same events in different orders of arrival, no
\* two of the events with a timestamp at the same instant, return the same
\* brute-force, error-rate, off-hours and token-burst findings, with the
\* same event_ids in the same order.
C29_TimePassesIgnoreArrivalOrder ==
  \A i, j \in Invocations :
    (HasReturned(i) /\ HasReturned(j) /\ SameEvents(i, j) /\ DistinctInstants(i))
      => TimeOrderFindings(i) = TimeOrderFindings(j)

\* C29's case: the second call has returned the findings of the four
\* passes for events that arrived in another order than in the first call
C29_Witness ==
  /\ HasReturned("a") /\ HasReturned("b")
  /\ events["a"] # events["b"] /\ SameEvents("a", "b") /\ DistinctInstants("b")
  /\ TimeOrderKinds \subseteq KindsReturned("b")

(***************************************************************************)
(* Properties of the order of the passes                                   *)
(***************************************************************************)
\* the kinds of findings a pass appends
KindsOf(p) ==
  CASE p = "pwd_mfa" -> {"auth.password_reset", "auth.mfa_activity"}
    [] p = "brute_force" -> {"auth.bruteforce_user", "auth.bruteforce_pair"}
    [] p = "blocked" -> {"auth.blocked"}
    [] p = "high_risk" -> {"auth.high_risk", "auth.tor"}
    [] p = "error_rate" -> {"web.error_user", "web.error_host"}
    [] p = "rare_ua" -> {"web.rare_ua"}
    [] p = "off_hours" -> {"auth.offhours"}
    [] p = "token" -> {"auth.token_fail_burst"}

\* what pass p appended in call i, which ran the passes in the order of
\* the source
Contribution(i, p) ==
  LET OfPass(a) == a.kind \in KindsOf(p)
  IN Filter(anomalies[i], OfPass)

\* the call is past its normalisation
Normalised(i) == pc[i] \notin {"idle", "start", "raised"} /\ events[i] # <<>>

\* C23: the passes leave the normalized events and the time-sorted view as
\* the normalisation made them; a pass run in any order, after any of the
\* others and interleaved with the loops of the others, appends what it
\* appends when the passes run in the order of the source; and the
\* findings of the passes, put together in that order, make the same
\* candidate list and the same returned list.
C23_PassesInAnyOrder ==
  /\ \A i \in Invocations :
       Normalised(i) =>
         /\ norm[i] = Normalized(events[i])
         /\ time_sorted[i] = TimeSorted(norm[i])
  /\ \A i, j \in Invocations :
       (HasReturned(i) /\ events[j] = events[i]) =>
         /\ \A p \in sched[j].ran : sched[j].parts[p] = Contribution(i, p)
         /\ pc[j] = "dedupe" => anomalies[j] = anomalies[i]
         /\ HasReturned(j) => result[j] = result[i]

\* C23's case: the second call, on a batch for which all eight passes
\* have appended findings in the first, has run its off-hours pass first
\* and is half way through its two loops, which take their steps in turn
C23_Witness ==
  /\ HasReturned("a") /\ pc["b"] = "passes"
  /\ \A p \in PassNames : Contribution("a", p) # <<>>
  /\ "off_hours" \in sched["b"].ran /\ "pwd_mfa" \notin sched["b"].ran
  /\ sched["b"].at["brute_force"] > 10 /\ sched["b"].at["token"] > 10
  /\ sched["b"].ran \cap LoopPasses = {}


(***************************************************************************)
(* Properties of the upload rows under upload, analyze and worker steps.   *)
(***************************************************************************)
\* uploaded | processing | summarizing | done | failed
UploadStatuses ==
  {StrV("uploaded"), StrV("processing"), StrV("summarizing"), StrV("done"),
   StrV("failed")}

IsPercent(p) == p.ty = "int" /\ p.n \in 0..100

\* C24: in every reachable state the stored progress of every upload is
\* an integer in 0..100 and its stored status is one of uploaded,
\* processing, summarizing, done and failed.
C24_StatusAndProgressInRange ==
  \A id \in 1..Len(uploads) :
    /\ uploads[id].status \in UploadStatuses
    /\ IsPercent(uploads[id].progress)

\* two uploads, one taken by its worker to done / 100 with its rows
\* inserted in several commits, the other failed at 100
C24_Witness ==
  /\ C24_StatusAndProgressInRange
  /\ \E id \in 1..Len(uploads) :
       /\ uploads[id].status = StrV("done") /\ uploads[id].progress = IntV(100)
       /\ uploads[id].events > COMMIT_EVERY
  /\ \E id \in 1..Len(uploads) :
       uploads[id].status = StrV("failed") /\ uploads[id].progress = IntV(100)

Active(id) ==
  {w \in 1..Len(workers) : workers[w].upload_id = id /\ workers[w].pc # "closed"}

\* C30: at no time are two _process_analysis workers active on one upload.
C30_AtMostOneActiveWorker ==
  \A id \in 1..Len(uploads) : Cardinality(Active(id)) <= 1


\* the upload is at done with progress 100
IsDone(row) == row.status = StrV("done") /\ row.progress = IntV(100)

\* what the claim says stays as it is: the status, the progress and the
\* LogEvent and Anomaly rows of the upload
Kept(row) == <<row.status, row.progress, row.events, row.anomalies>>

\* C31: done is terminal: from a state where an upload is at done with
\* progress 100, no step of a request or of a worker changes its status or
\* its progress or inserts a LogEvent or Anomaly row for it.
C31_DoneIsTerminal ==
  [][\A id \in 1..Len(uploads) :
       IsDone(uploads[id]) => Kept(uploads'[id]) = Kept(uploads[id])]_vars


\* the upload is at done or failed, with progress 100
Settled(row) ==
  /\ row.status \in {StrV("done"), StrV("failed")}
  /\ row.progress = IntV(100)

Started(w) == w \in 1..Len(workers)

\* worker w has been started and has not returned
Running(w) == Started(w) /\ workers[w].pc # "closed"

\* worker w has returned and the upload is at done or failed with 100
ReturnedSettled(w) ==
  /\ Started(w)
  /\ workers[w].pc = "closed"
  /\ Settled(uploads[workers[w].upload_id])

\* C32: every started worker eventually returns with the upload at done
\* or failed and progress 100, whether the content is empty, a step
\* raises, or the summary fails.
C32_WorkerSettlesUpload ==
  \A w \in 1..MaxRequests : Running(w) ~> ReturnedSettled(w)

\* one worker has returned after an exception that followed the insertion
\* of rows (failed, 100, rows stored), on an upload that is not empty
C32_Witness ==
  \E w \in 1..Len(workers) :
    /\ workers[w].pc = "closed"
    /\ workers[w].inserted > 0
    /\ uploads[workers[w].upload_id].status = StrV("failed")
    /\ uploads[workers[w].upload_id].progress = IntV(100)
    /\ uploads[workers[w].upload_id].events > 0

====
